---- MODULE Spec2Model ----
(***************************************************************************)
(* Model of the multi-target tracking engine of hexar (src/src/tracker.rs) *)
(* and of the scan cycle that drives it (src/src/radar_controller.rs).     *)
(*                                                                         *)
(* Numbers.  The code computes in f32; the model computes in fixed point:  *)
(*   - time is counted in ticks, TicksPerSec ticks to the second;          *)
(*   - a position coordinate is an integer number of 1/PosScale metres,    *)
(*     a velocity the same per second, an acceleration per second^2;       *)
(*   - confidence and fall risk are integers in units of 1/ProbScale, and  *)
(*     the f32 literals 0.1 .. 0.9 are the f32 nearest to the literal,     *)
(*     rounded to that unit (0.7f32 = 0.69999999, 0.4f32 = 0.40000001);    *)
(*   - a covariance entry is an integer number of 1/CovScale.              *)
(* Every division rounds toward minus infinity (\div).                     *)
(*                                                                         *)
(* The estimator's 6x6 covariance is kept as the 3x3 block of one axis     *)
(* (rows/columns position, velocity, acceleration): F, Q, H and R never    *)
(* couple x and y, the two axis blocks start equal and receive the same    *)
(* operations, and every cross-axis entry stays 0.                         *)
(***************************************************************************)
EXTENDS Integers, Sequences, FiniteSets, TLC

VARIABLES
    targets,          \* MultiTargetTracker.targets: id -> TrackedTarget
    kalman_filters,   \* MultiTargetTracker.kalman_filters: id -> KalmanFilter
    next_target_id,   \* MultiTargetTracker.next_target_id
    now,              \* the monotonic clock read by Instant::now(), in ticks
    initialized,      \* RadarController.initialized
    pc,               \* "idle", or "scan" while run_scan_cycle is in its loop
    signals_processed,\* run_scan_cycle's loop counter
    overflow_checks,  \* the build traps integer overflow (debug profile)
    scan_results,     \* RadarController.scan_results: the number of entries
    scanner,          \* the FrequencyScanner and the place of its quick_scan
    safety_manager,   \* the SafetyManager
    steps,            \* the number of operations performed so far
    panicked,         \* TRUE once an operation has panicked (the process is gone)
    last,             \* the latest operation: [op, arg, ret]
    issued            \* ids returned by add_target before the latest operation

vars == <<targets, kalman_filters, next_target_id, now, initialized, pc,
          signals_processed, overflow_checks, scan_results, scanner,
          safety_manager, steps, panicked, last, issued>>

radar_vars == <<initialized, pc, signals_processed, overflow_checks,
                scan_results>>

controller_vars == <<radar_vars, scanner, safety_manager>>

(* the name of the latest operation *)
LastOp == last.op

----------------------------------------------------------------------------
(* Bounds of the model *)

MaxSteps == 5         \* operations per behaviour of Spec, SpecWrap, SpecFull, SpecRisk
ScanSteps == 6        \* operations per behaviour of SpecController
CapIds == 10          \* creations per behaviour of SpecCapacity
CapTime == 1          \* the clock of SpecCapacity stops at this tick
PruneIds == 1         \* creations per behaviour of SpecPrune
PruneTime == 1        \* the clock of SpecPrune stops at this tick
StressAdds == 10       \* creations submitted per behaviour of SpecStress
LastTick == 132       \* the clock of SpecSingular stops at this tick
CycleSteps == 12      \* operations per behaviour of SpecCycle
LongCoast == 22       \* coast cycles in a row that SpecPrune lets a track take
DescentSteps == 8     \* operations in a behaviour of SpecDescent
QuietDetections == 3  \* detections in a behaviour of SpecQuiet
QuietStep == 50       \* ticks between two instants of SpecQuiet
QuietFrom == 50       \* SpecQuiet has no detection after this tick
LoopDetections == 2   \* detections in a behaviour of SpecLoop
LoopUntil == 400      \* the clock of SpecLoop stops at this tick
QuietUntil == 400     \* the clock of SpecQuiet stops at this tick
SafetySteps == 4      \* operations per behaviour of SpecSafety
HistoryBatches == 4   \* batches of scan results in a behaviour of SpecHistory
PayloadLen == 3       \* payload bytes of the frames of SpecFrame
FrameSteps == 1       \* frames parsed in a behaviour of SpecFrame
ScanSpan == 4         \* MHz from the start to the end of a range of SpecScan
ScanSetups == 2       \* scanners made in a behaviour of SpecScan

----------------------------------------------------------------------------
(* Units *)

TicksPerSec == 10
PosScale == 100
ProbScale == 100000000
CovScale == 10
GainScale == 1000
TrajScale == 400      \* a trajectory point holds x + v*0.05 + g*0.05*0.05 exactly
FScale == 200         \* F holds dt (in seconds) and 0.5*dt*dt exactly in 1/200

(* Option<T> *)
None == {}
Some(x) == {x}

(* Inputs: channels, detection positions (1.49 m from the first and 1.68 m
   from the third for the second, 3 m between the first and the third), the
   coast interval and the pruning timeouts, in ticks *)
Antennas == {0, 1}
Positions == {<<0, 0>>, <<140, 50>>, <<300, 0>>}
TrackPositions == {<<0, 0>>, <<140, 50>>}
PredictionTimes == {1}
Timeouts == {0, 1}

----------------------------------------------------------------------------
(* u32: a value is held as the 32-bit signed integer with the same bits, so
   that 2^31 .. 2^32 - 1 are the negative integers and u32::MAX is -1 *)

U32Max == -1

U32Inc(v) ==
    IF v = U32Max THEN 0
    ELSE IF v = 2147483647 THEN -2147483647 - 1
    ELSE v + 1

U32Less(a, b) == IF (a >= 0) = (b >= 0) THEN a < b ELSE a >= 0

----------------------------------------------------------------------------
(* TrackedTarget *)

TrackedTarget_new(id, antenna_id, position, t) ==
    [id |-> id,
     antenna_id |-> antenna_id,
     position |-> position,
     velocity |-> <<0, 0>>,
     acceleration |-> <<0, 0>>,
     state |-> "Tracking",
     confidence |-> ProbScale,
     last_update |-> t,
     prediction_count |-> 0,
     fall_probability |-> 0]

(* 0.2f32, 0.1f32 and 0.7f32 in units of 1/ProbScale; the factors 0.8 and 0.9
   are applied as (c * 8) \div 10 and (c * 9) \div 10 *)
SmoothGain == (2 * ProbScale) \div 10
ConfidenceFloor == ProbScale \div 10
FallingThreshold == (7 * ProbScale) \div 10 - 1

Min(a, b) == IF a < b THEN a ELSE b

(* update_position that adds 0.2 to the confidence as it is, unclamped *)
update_position_boost(self, new_position, dt, t) ==
    IF dt > 0
    THEN [self EXCEPT !.position = new_position,
                      !.last_update = t,
                      !.prediction_count = 0,
                      !.confidence = self.confidence + SmoothGain]
    ELSE self

(* update_position that does not reset the coast count *)
update_position_keeps_count(self, new_position, dt, t) ==
    IF dt > 0
    THEN [self EXCEPT !.position = new_position,
                      !.last_update = t,
                      !.confidence = Min((self.confidence * 8) \div 10 + SmoothGain,
                                         ProbScale)]
    ELSE self

(* TrackedTarget::update_position; dt in ticks, t the clock *)
update_position(self, new_position, dt, t) ==
    IF dt > 0
    THEN LET new_velocity ==
                 <<((new_position[1] - self.position[1]) * TicksPerSec) \div dt,
                   ((new_position[2] - self.position[2]) * TicksPerSec) \div dt>>
         IN [self EXCEPT
                !.acceleration =
                    <<((new_velocity[1] - self.velocity[1]) * TicksPerSec) \div dt,
                      ((new_velocity[2] - self.velocity[2]) * TicksPerSec) \div dt>>,
                !.velocity = new_velocity,
                !.position = new_position,
                !.last_update = t,
                !.prediction_count = 0,
                !.confidence = Min((self.confidence * 8) \div 10 + SmoothGain,
                                   ProbScale)]
    ELSE self

is_falling(self) == self.fall_probability > FallingThreshold

----------------------------------------------------------------------------
(* KalmanFilter.  state is <<x, y, vx, vy, ax, ay>>; covariance is the 3x3
   block of one axis, rows and columns (position, velocity, acceleration). *)

Idx == 1..3

Identity3(v) == [i \in Idx |-> [j \in Idx |-> IF i = j THEN v ELSE 0]]

MatMul(A, B) ==
    [i \in Idx |-> [j \in Idx |-> A[i][1] * B[1][j] + A[i][2] * B[2][j]
                                   + A[i][3] * B[3][j]]]

Transpose(A) == [i \in Idx |-> [j \in Idx |-> A[j][i]]]

MatDiv(A, d) == [i \in Idx |-> [j \in Idx |-> A[i][j] \div d]]

MatAdd(A, B) == [i \in Idx |-> [j \in Idx |-> A[i][j] + B[i][j]]]

process_noise == Identity3(CovScale \div 10)        \* Matrix6::identity() * 0.1
measurement_noise == CovScale                       \* Matrix2::identity() * 1.0

(* KalmanFilter::new that leaves the state at the origin *)
KalmanFilter_new_origin(initial_position) ==
    [state |-> <<0, 0, 0, 0, 0, 0>>,
     covariance |-> Identity3(100 * CovScale)]

KalmanFilter_new(initial_position) ==
    [state |-> <<initial_position[1], initial_position[2], 0, 0, 0, 0>>,
     covariance |-> Identity3(100 * CovScale)]

(* the transition matrix F of one axis for dt ticks, in units of 1/FScale:
   1, dt and 0.5*dt*dt with dt in seconds *)
state_transition(dt) ==
    LET d == (dt * FScale) \div TicksPerSec
        h == (dt * dt * FScale) \div (2 * TicksPerSec * TicksPerSec)
    IN <<<<FScale, d, h>>, <<0, FScale, d>>, <<0, 0, FScale>>>>

(* KalmanFilter::predict *)
predict(self, dt) ==
    LET f == state_transition(dt)
        s == self.state
        row(i, p, v, a) == (f[i][1] * p + f[i][2] * v + f[i][3] * a) \div FScale
    IN [state |-> <<row(1, s[1], s[3], s[5]), row(1, s[2], s[4], s[6]),
                    row(2, s[1], s[3], s[5]), row(2, s[2], s[4], s[6]),
                    row(3, s[1], s[3], s[5]), row(3, s[2], s[4], s[6])>>,
        covariance |->
            MatAdd(MatDiv(MatMul(MatDiv(MatMul(f, self.covariance), FScale),
                                 Transpose(f)), FScale),
                   process_noise)]

(* H * P * H^T + R: both diagonal entries are this value, the others are 0 *)
innovation_covariance(self) == self.covariance[1][1] + measurement_noise

(* Matrix2::try_inverse of the diagonal innovation covariance: None when the
   determinant s * s is zero *)
try_inverse(s) == IF s = 0 THEN None ELSE Some(s)

(* an update that commits the correction to all three rows of each axis:
   position, velocity and acceleration *)
update_with_all_rows(self, measurement, s) ==
    LET innovation == <<measurement[1] - self.state[1],
                        measurement[2] - self.state[2]>>
        P == self.covariance
        kalman_gain == [i \in Idx |-> (P[i][1] * GainScale) \div s]
        correction(i, axis) == (kalman_gain[i] * innovation[axis]) \div GainScale
    IN [state |-> <<self.state[1] + correction(1, 1), self.state[2] + correction(1, 2),
                    self.state[3] + correction(2, 1), self.state[4] + correction(2, 2),
                    self.state[5] + correction(3, 1), self.state[6] + correction(3, 2)>>,
        covariance |->
            [i \in Idx |-> [j \in Idx |->
                P[i][j] - (kalman_gain[i] * P[1][j]) \div GainScale]]]

(* KalmanFilter::update with the inverse at hand: K = P * H^T * S^-1 in units
   of 1/GainScale; only the position entries of the state are corrected *)
update_with(self, measurement, s) ==
    LET innovation == <<measurement[1] - self.state[1],
                        measurement[2] - self.state[2]>>
        P == self.covariance
        kalman_gain == [i \in Idx |-> (P[i][1] * GainScale) \div s]
        state_update == <<(kalman_gain[1] * innovation[1]) \div GainScale,
                          (kalman_gain[1] * innovation[2]) \div GainScale>>
    IN [state |-> [self.state EXCEPT ![1] = @ + state_update[1],
                                     ![2] = @ + state_update[2]],
        covariance |->
            [i \in Idx |-> [j \in Idx |->
                P[i][j] - (kalman_gain[i] * P[1][j]) \div GainScale]]]

get_position(self) == <<self.state[1], self.state[2]>>
get_velocity(self) == <<self.state[3], self.state[4]>>
get_acceleration(self) == <<self.state[5], self.state[6]>>

----------------------------------------------------------------------------
(* FallDetector *)

gravity_threshold == (-95 * PosScale) \div 10       \* -9.5
velocity_threshold == 2 * PosScale                  \* 2.0
acceleration_threshold == 15 * PosScale             \* 15.0

NormSq(v) == v[1] * v[1] + v[2] * v[2]

(* analyze_fall_risk that calls every track a certain fall *)
analyze_fall_risk_always(target) == ProbScale

(* analyze_fall_risk without the final min(1.0) *)
analyze_fall_risk_unclamped(target) ==
    (IF target.acceleration[2] < gravity_threshold
     THEN (4 * ProbScale) \div 10 + 1 ELSE 0)
    + (IF target.velocity[2] < -velocity_threshold
       THEN (3 * ProbScale) \div 10 + 1 ELSE 0)
    + (IF NormSq(target.acceleration)
            > acceleration_threshold * acceleration_threshold
       THEN (2 * ProbScale) \div 10 ELSE 0)
    + (IF NormSq(target.velocity)
            > (velocity_threshold * 2) * (velocity_threshold * 2)
       THEN ProbScale \div 10 ELSE 0)

(* analyze_fall_risk whose free-fall test lets the threshold itself pass:
   <= for < *)
analyze_fall_risk_nonstrict(target) ==
    Min((IF target.acceleration[2] <= gravity_threshold
         THEN (4 * ProbScale) \div 10 + 1 ELSE 0)
        + (IF target.velocity[2] < -velocity_threshold
           THEN (3 * ProbScale) \div 10 + 1 ELSE 0)
        + (IF NormSq(target.acceleration)
                > acceleration_threshold * acceleration_threshold
           THEN (2 * ProbScale) \div 10 ELSE 0)
        + (IF NormSq(target.velocity)
                > (velocity_threshold * 2) * (velocity_threshold * 2)
           THEN ProbScale \div 10 ELSE 0),
        ProbScale)

(* FallDetector::analyze_fall_risk; 0.4f32, 0.3f32, 0.2f32, 0.1f32 *)
analyze_fall_risk(target) ==
    LET r1 == IF target.acceleration[2] < gravity_threshold
              THEN (4 * ProbScale) \div 10 + 1 ELSE 0
        r2 == IF target.velocity[2] < -velocity_threshold
              THEN (3 * ProbScale) \div 10 + 1 ELSE 0
        r3 == IF NormSq(target.acceleration)
                    > acceleration_threshold * acceleration_threshold
              THEN (2 * ProbScale) \div 10 ELSE 0
        r4 == IF NormSq(target.velocity)
                    > (velocity_threshold * 2) * (velocity_threshold * 2)
              THEN ProbScale \div 10 ELSE 0
    IN Min(r1 + r2 + r3 + r4, ProbScale)

----------------------------------------------------------------------------
(* MultiTargetTracker.  An operation is an operator on the tracker
   self = [targets, kalman_filters, next_target_id] giving the tracker after
   the call and the value returned. *)

max_targets_per_antenna == 8

Insert(m, k, v) == [x \in DOMAIN m \cup {k} |-> IF x = k THEN v ELSE m[x]]

Remove(m, ks) == [x \in DOMAIN m \ ks |-> m[x]]

Empty == [x \in {} |-> 0]

MultiTargetTracker_new ==
    [targets |-> Empty, kalman_filters |-> Empty, next_target_id |-> 0]

get_target_count_by_antenna(self, antenna_id) ==
    Cardinality({id \in DOMAIN self.targets :
                    self.targets[id].antenna_id = antenna_id})

(* add_target with the capacity test off by one: > for >= *)
add_target_off_by_one(self, antenna_id, position, t) ==
    IF get_target_count_by_antenna(self, antenna_id) > max_targets_per_antenna
    THEN [self |-> self, ret |-> None, panic |-> FALSE]
    ELSE [self |->
            [targets |-> Insert(self.targets, self.next_target_id,
                    TrackedTarget_new(self.next_target_id, antenna_id, position, t)),
             kalman_filters |-> Insert(self.kalman_filters, self.next_target_id,
                    KalmanFilter_new(position)),
             next_target_id |-> U32Inc(self.next_target_id)],
          ret |-> Some(self.next_target_id), panic |-> FALSE]

(* add_target that takes the id before it tests the capacity *)
add_target_burns_id(self, antenna_id, position, t) ==
    IF get_target_count_by_antenna(self, antenna_id) >= max_targets_per_antenna
    THEN [self |-> [self EXCEPT !.next_target_id = U32Inc(self.next_target_id)],
          ret |-> None, panic |-> FALSE]
    ELSE [self |->
            [targets |-> Insert(self.targets, self.next_target_id,
                    TrackedTarget_new(self.next_target_id, antenna_id, position, t)),
             kalman_filters |-> Insert(self.kalman_filters, self.next_target_id,
                    KalmanFilter_new(position)),
             next_target_id |-> U32Inc(self.next_target_id)],
          ret |-> Some(self.next_target_id), panic |-> FALSE]

(* MultiTargetTracker::add_target at clock t.  `next_target_id += 1` at
   u32::MAX panics in a build with overflow checks, before anything is
   inserted, and wraps to 0 in a build without. *)
add_target(self, antenna_id, position, t) ==
    IF get_target_count_by_antenna(self, antenna_id) >= max_targets_per_antenna
    THEN [self |-> self, ret |-> None, panic |-> FALSE]
    ELSE IF self.next_target_id = U32Max /\ overflow_checks
    THEN [self |-> self, ret |-> None, panic |-> TRUE]
    ELSE LET target_id == self.next_target_id
         IN [self |->
                [targets |-> Insert(self.targets, target_id,
                        TrackedTarget_new(target_id, antenna_id, position, t)),
                 kalman_filters |-> Insert(self.kalman_filters, target_id,
                        KalmanFilter_new(position)),
                 next_target_id |-> U32Inc(self.next_target_id)],
             ret |-> Some(target_id), panic |-> FALSE]

(* the Falling / Tracking branch with its test turned round *)
state_for_inverted(fall_probability) ==
    IF fall_probability > FallingThreshold THEN "Tracking" ELSE "Falling"

(* the Falling / Tracking branch of update_target *)
state_for(fall_probability) ==
    IF fall_probability > FallingThreshold THEN "Falling" ELSE "Tracking"

(* update_target that also takes a measurement when no time has passed:
   >= for > *)
update_target_zero_dt(self, target_id, new_position, t) ==
    IF target_id \in DOMAIN self.targets /\ target_id \in DOMAIN self.kalman_filters
    THEN LET target == self.targets[target_id]
             dt == t - target.last_update
             predicted == predict(self.kalman_filters[target_id], dt)
             inverse == try_inverse(innovation_covariance(predicted))
         IN IF dt >= 0
            THEN IF inverse = None
                 THEN [self |-> [self EXCEPT !.kalman_filters[target_id] = predicted],
                       ret |-> FALSE, panic |-> TRUE]
                 ELSE LET kalman_filter ==
                              update_with(predicted, new_position,
                                          CHOOSE s \in inverse : TRUE)
                          moved == update_position(target,
                                       get_position(kalman_filter), dt, t)
                          filtered ==
                              [moved EXCEPT
                                  !.velocity = get_velocity(kalman_filter),
                                  !.acceleration = get_acceleration(kalman_filter)]
                          risk == analyze_fall_risk(filtered)
                      IN [self |-> [self EXCEPT
                                !.kalman_filters[target_id] = kalman_filter,
                                !.targets[target_id] =
                                    [filtered EXCEPT !.fall_probability = risk,
                                                     !.state = state_for(risk)]],
                          ret |-> TRUE, panic |-> FALSE]
            ELSE [self |-> self, ret |-> FALSE, panic |-> FALSE]
    ELSE [self |-> self, ret |-> FALSE, panic |-> FALSE]

(* MultiTargetTracker::update_target at clock t; panic is TRUE when the
   unwrap() of the inverse panics, after predict has been applied *)
update_target(self, target_id, new_position, t) ==
    IF target_id \in DOMAIN self.targets /\ target_id \in DOMAIN self.kalman_filters
    THEN LET target == self.targets[target_id]
             dt == t - target.last_update
             predicted == predict(self.kalman_filters[target_id], dt)
             inverse == try_inverse(innovation_covariance(predicted))
         IN IF dt > 0
            THEN IF inverse = None
                 THEN [self |-> [self EXCEPT !.kalman_filters[target_id] = predicted],
                       ret |-> FALSE, panic |-> TRUE]
                 ELSE LET kalman_filter ==
                              update_with(predicted, new_position,
                                          CHOOSE s \in inverse : TRUE)
                          moved == update_position(target,
                                       get_position(kalman_filter), dt, t)
                          filtered ==
                              [moved EXCEPT
                                  !.velocity = get_velocity(kalman_filter),
                                  !.acceleration = get_acceleration(kalman_filter)]
                          risk == analyze_fall_risk(filtered)
                      IN [self |-> [self EXCEPT
                                !.kalman_filters[target_id] = kalman_filter,
                                !.targets[target_id] =
                                    [filtered EXCEPT !.fall_probability = risk,
                                                     !.state = state_for(risk)]],
                          ret |-> TRUE, panic |-> FALSE]
            ELSE [self |-> self, ret |-> FALSE, panic |-> FALSE]
    ELSE [self |-> self, ret |-> FALSE, panic |-> FALSE]

(* the loop body without the increment of the coast count *)
coast_no_count(target, kalman_filter) ==
    [target EXCEPT !.position = get_position(kalman_filter),
                   !.velocity = get_velocity(kalman_filter),
                   !.acceleration = get_acceleration(kalman_filter),
                   !.state = "Predicted",
                   !.confidence = (@ * 9) \div 10]

(* the loop body of predict_all_targets for one track *)
coast(target, kalman_filter) ==
    [target EXCEPT !.position = get_position(kalman_filter),
                   !.velocity = get_velocity(kalman_filter),
                   !.acceleration = get_acceleration(kalman_filter),
                   !.state = "Predicted",
                   !.prediction_count = @ + 1,
                   !.confidence = (@ * 9) \div 10]

(* MultiTargetTracker::predict_all_targets; dt in ticks *)
predict_all_targets(self, dt) ==
    LET coasting == DOMAIN self.targets \cap DOMAIN self.kalman_filters
        filters == [id \in DOMAIN self.kalman_filters |->
                        IF id \in coasting THEN predict(self.kalman_filters[id], dt)
                        ELSE self.kalman_filters[id]]
    IN [self |-> [self EXCEPT
            !.kalman_filters = filters,
            !.targets = [id \in DOMAIN self.targets |->
                            IF id \in coasting THEN coast(self.targets[id], filters[id])
                            ELSE self.targets[id]]],
        ret |-> None]

(* the pruning condition with the idle-time test met at the timeout itself:
   >= for > *)
is_lost_at_timeout(target, timeout, t) ==
    \/ t - target.last_update >= timeout
    \/ target.confidence < ConfidenceFloor
    \/ target.prediction_count > 10

(* the pruning condition without the idle-time test *)
is_lost_no_timeout(target, timeout, t) ==
    \/ target.confidence < ConfidenceFloor
    \/ target.prediction_count > 10

(* the pruning condition without the coast-count test *)
is_lost_no_count(target, timeout, t) ==
    \/ t - target.last_update > timeout
    \/ target.confidence < ConfidenceFloor

(* the pruning condition of remove_lost_targets; timeout in ticks *)
is_lost(target, timeout, t) ==
    \/ t - target.last_update > timeout
    \/ target.confidence < ConfidenceFloor
    \/ target.prediction_count > 10

(* remove_lost_targets that drops the estimator of every track, kept or not *)
remove_lost_targets_all_estimators(self, timeout, t) ==
    LET to_remove == {id \in DOMAIN self.targets :
                         is_lost(self.targets[id], timeout, t)}
    IN [self |-> [self EXCEPT
            !.targets = Remove(self.targets, to_remove),
            !.kalman_filters = Empty],
        ret |-> [id \in to_remove |-> self.targets[id]]]

(* remove_lost_targets that leaves the estimators of the removed tracks *)
remove_lost_targets_orphans(self, timeout, t) ==
    LET to_remove == {id \in DOMAIN self.targets :
                         is_lost(self.targets[id], timeout, t)}
    IN [self |-> [self EXCEPT !.targets = Remove(self.targets, to_remove)],
        ret |-> [id \in to_remove |-> self.targets[id]]]

(* MultiTargetTracker::remove_lost_targets at clock t; ret is to_remove, with
   the track each id named *)
remove_lost_targets(self, timeout, t) ==
    LET to_remove == {id \in DOMAIN self.targets :
                         is_lost(self.targets[id], timeout, t)}
    IN [self |-> [self EXCEPT
            !.targets = Remove(self.targets, to_remove),
            !.kalman_filters = Remove(self.kalman_filters, to_remove)],
        ret |-> [id \in to_remove |-> self.targets[id]]]

(* MultiTargetTracker::get_falling_targets, as the set of the ids returned *)
get_falling_targets(self) ==
    {id \in DOMAIN self.targets : is_falling(self.targets[id])}

(* MultiTargetTracker::clear_all_targets *)
clear_all_targets(self) ==
    [self |-> [self EXCEPT !.targets = Empty, !.kalman_filters = Empty],
     ret |-> None]

(* the loop with its two assignments exchanged: the position advances by the
   velocity of the step before *)
RECURSIVE position_first_steps(_, _, _)
position_first_steps(position, velocity, k) ==
    IF k = 0 THEN <<>>
    ELSE LET p == <<position[1] + velocity[1], position[2] + velocity[2]>>
             v == <<velocity[1], velocity[2] - 981>>
         IN <<p>> \o position_first_steps(p, v, k - 1)

predict_fall_trajectory_position_first(target, time_steps) ==
    position_first_steps(
        <<target.position[1] * TrajScale, target.position[2] * TrajScale>>,
        <<target.velocity[1] * 20, target.velocity[2] * 20>>,
        time_steps)

(* FallDetector::predict_fall_trajectory: the loop, k steps left.  The
   position is in units of 1/(PosScale * TrajScale) m and the velocity in
   units of 1/(PosScale * 20) m/s, in which gravity * dt = (0, -9.81) * 0.05
   is (0, -981) and velocity * dt is the velocity's own number. *)
RECURSIVE fall_steps(_, _, _)
fall_steps(position, velocity, k) ==
    IF k = 0 THEN <<>>
    ELSE LET v == <<velocity[1], velocity[2] - 981>>
             p == <<position[1] + v[1], position[2] + v[2]>>
         IN <<p>> \o fall_steps(p, v, k - 1)

predict_fall_trajectory(target, time_steps) ==
    fall_steps(<<target.position[1] * TrajScale, target.position[2] * TrajScale>>,
               <<target.velocity[1] * 20, target.velocity[2] * 20>>,
               time_steps)

(* get_fall_predictions that answers an unknown id with an empty trajectory *)
get_fall_predictions_default(self, target_id, time_steps) ==
    IF target_id \in DOMAIN self.targets
    THEN Some(predict_fall_trajectory(self.targets[target_id], time_steps))
    ELSE Some(<<>>)

(* MultiTargetTracker::get_fall_predictions *)
get_fall_predictions(self, target_id, time_steps) ==
    IF target_id \in DOMAIN self.targets
    THEN Some(predict_fall_trajectory(self.targets[target_id], time_steps))
    ELSE None

----------------------------------------------------------------------------
(* RadarController: the tracker's part of the scan cycle *)

SafetyPeriod == 30 * TicksPerSec                    \* sleep(Duration::from_secs(30))
GatingThreshold == 2 * PosScale                     \* let threshold = 2.0
ScanTimeout == 30 * TicksPerSec                     \* Duration::from_secs(30)

(* the gate with its test turned round: > for < *)
within_threshold_inverted(target, position) ==
    NormSq(<<target.position[1] - position[1], target.position[2] - position[2]>>)
        > GatingThreshold * GatingThreshold

within_threshold(target, position) ==
    NormSq(<<target.position[1] - position[1], target.position[2] - position[2]>>)
        < GatingThreshold * GatingThreshold

(* the ids within the gating distance of a position *)
nearby(self, position) ==
    {id \in DOMAIN self.targets : within_threshold(self.targets[id], position)}

(* find_nearby_target that searches the tracks as they were before this
   clock reading: it misses the tracks created since *)
find_nearby_target_stale(self, position) ==
    LET before == {id \in nearby(self, position) :
                      self.targets[id].last_update < now}
    IN IF before = {} THEN {None} ELSE {Some(id) : id \in before}

(* RadarController::find_nearby_target: the values it can return.  It returns
   the first track within the threshold in the HashMap's iteration order,
   which is any of them. *)
find_nearby_target(self, position) ==
    IF nearby(self, position) = {} THEN {None}
    ELSE {Some(id) : id \in nearby(self, position)}

(* the loop body that also moves the updated track to the channel of the
   detection *)
associate_or_create_moves_channel(self, antenna_id, position, found, t) ==
    IF found # None
    THEN LET id == CHOOSE id \in found : TRUE
             u == update_target(self, id, position, t)
         IN [self |-> IF id \in DOMAIN u.self.targets
                      THEN [u.self EXCEPT !.targets[id].antenna_id = antenna_id]
                      ELSE u.self,
             panic |-> u.panic,
             ret |-> [near |-> nearby(self, position), found |-> found,
                      updated |-> u.ret, created |-> None]]
    ELSE LET a == add_target(self, antenna_id, position, t)
         IN [self |-> a.self, panic |-> a.panic,
             ret |-> [near |-> nearby(self, position), found |-> found,
                      updated |-> FALSE, created |-> a.ret]]

(* the body of run_scan_cycle's loop for one scan result, given the value
   find_nearby_target returned: update that track, or create one *)
associate_or_create(self, antenna_id, position, found, t) ==
    IF found # None
    THEN LET u == update_target(self, CHOOSE id \in found : TRUE, position, t)
         IN [self |-> u.self, panic |-> u.panic,
             ret |-> [near |-> nearby(self, position), found |-> found,
                      updated |-> u.ret, created |-> None]]
    ELSE LET a == add_target(self, antenna_id, position, t)
         IN [self |-> a.self, panic |-> a.panic,
             ret |-> [near |-> nearby(self, position), found |-> found,
                      updated |-> FALSE, created |-> a.ret]]

----------------------------------------------------------------------------
(* Ld2450TargetData: the target report of the LD2450 sensor *)

(* i16::from_le_bytes and u16::from_le_bytes *)
u16_from_le_bytes(lo, hi) == lo + 256 * hi
i16_from_le_bytes(lo, hi) ==
    IF u16_from_le_bytes(lo, hi) >= 32768
    THEN u16_from_le_bytes(lo, hi) - 65536
    ELSE u16_from_le_bytes(lo, hi)

(* x &= 0x7FFF on an i16: the low 15 bits of its two's complement *)
clear_sign_bit(x) == ((x + 65536) % 65536) % 32768

(* -x on an i16, wrapping *)
i16_neg(x) == IF -x > 32767 THEN -x - 65536 ELSE -x

(* the decoding with the flag read the usual way round: bit 15 set means
   negative *)
sign_flagged_set_is_negative(lo, hi) ==
    IF (hi \div 128) % 2 # 0
    THEN i16_neg(clear_sign_bit(i16_from_le_bytes(lo, hi)))
    ELSE i16_from_le_bytes(lo, hi)

(* "Handle sign bit in highest bit for x, y, and speed": the word read as
   an i16, then the flag tested on the high byte *)
sign_flagged(lo, hi) ==
    IF (hi \div 128) % 2 # 0
    THEN clear_sign_bit(i16_from_le_bytes(lo, hi))
    ELSE i16_neg(i16_from_le_bytes(lo, hi))

(* the body of the loop for target i: nothing if the slot is beyond the
   buffer or all zeros, else the target decoded *)
target_at(buffer, i) ==
    LET base_index == i * 8
        byte(k) == buffer[base_index + k + 1]
    IN IF base_index + 8 > Len(buffer) THEN <<>>
       ELSE IF \A k \in 0..7 : byte(k) = 0 THEN <<>>
       ELSE <<[position |-> [x |-> sign_flagged(byte(0), byte(1)),
                             y |-> sign_flagged(byte(2), byte(3))],
               speed |-> sign_flagged(byte(4), byte(5)),
               distance_resolution |-> u16_from_le_bytes(byte(6), byte(7))]>>

(* Ld2450TargetData::deserialize *)
deserialize(buffer) ==
    IF Len(buffer) < 24 THEN None
    ELSE Some([targets |-> target_at(buffer, 0) \o target_at(buffer, 1)
                              \o target_at(buffer, 2)])

----------------------------------------------------------------------------
(* SafetyManager (safety.rs). Temperatures are in tenths of a degree Celsius,
   powers in hundredths of a watt, voltages in tenths of a volt, and the
   voltage tolerance in parts of ten thousand. *)

(* SafetyConfig::default, the fields the manager reads *)
DefaultSafetyConfig ==
    [warning_celsius |-> 700, critical_celsius |-> 850,
     max_power_watts |-> 10000, voltage_tolerance |-> 1000]

(* SafetyManager::new *)
SafetyManager_new(config) ==
    [config |-> config, last_diagnostics |-> None,
     emergency_stop_triggered |-> FALSE, shutdown_requested |-> FALSE]

(* check_antenna_systems: placeholder data for six antennas *)
check_antenna_systems ==
    [i \in 0..5 |-> [id |-> i, operational |-> TRUE,
                     temperature_celsius |-> 250 + i * 5]]

(* check_power_system: placeholder data *)
check_power_system ==
    [voltage_nominal |-> 120, voltage_actual |-> 121,
     power_consumption |-> 10285]

(* check_cooling_system: placeholder data *)
check_cooling_system ==
    [internal_temperature |-> 350, filter_status |-> "Clean"]

(* check_emergency_systems: placeholder data *)
check_emergency_systems ==
    [emergency_stop_functional |-> TRUE, fire_suppression_ready |-> TRUE,
     radiation_monitoring_active |-> TRUE]

(* what a vector holds after a push made under a condition *)
pushed(entry, condition) == IF condition THEN {entry} ELSE {}

(* the issues run_full_diagnostics pushes, each as <<what, antenna id or 0>> *)
diagnostics_issues(config) ==
    LET antenna_status == check_antenna_systems
        power_status == check_power_system
        cooling_status == check_cooling_system
        emergency_status == check_emergency_systems
        deviation == IF power_status.voltage_actual >= power_status.voltage_nominal
                     THEN power_status.voltage_actual - power_status.voltage_nominal
                     ELSE power_status.voltage_nominal - power_status.voltage_actual
    IN    {<<"antenna not operational", i>> :
              i \in {j \in DOMAIN antenna_status : ~antenna_status[j].operational}}
     \cup {<<"antenna temperature critical", i>> :
              i \in {j \in DOMAIN antenna_status :
                        antenna_status[j].temperature_celsius
                            > config.critical_celsius}}
     \cup pushed(<<"voltage out of tolerance", 0>>,
                 10000 * deviation > config.voltage_tolerance * power_status.voltage_nominal)
     \cup pushed(<<"power consumption exceeds limit", 0>>,
                 power_status.power_consumption > config.max_power_watts)
     \cup pushed(<<"cooling filter missing", 0>>,
                 cooling_status.filter_status = "Missing")
     \cup pushed(<<"emergency stop not functional", 0>>,
                 ~emergency_status.emergency_stop_functional)
     \cup pushed(<<"fire suppression not ready", 0>>,
                 ~emergency_status.fire_suppression_ready)

(* the warnings run_full_diagnostics pushes from the component checks (the
   maintenance warning reads the wall clock and is left out) *)
diagnostics_warnings(config) ==
    LET antenna_status == check_antenna_systems
        cooling_status == check_cooling_system
        emergency_status == check_emergency_systems
    IN    {<<"antenna temperature high", i>> :
              i \in {j \in DOMAIN antenna_status :
                        antenna_status[j].temperature_celsius
                            > config.warning_celsius}}
     \cup pushed(<<"internal temperature high", 0>>,
                 cooling_status.internal_temperature > config.warning_celsius)
     \cup pushed(<<"cooling filter dirty", 0>>,
                 cooling_status.filter_status = "Dirty")
     \cup pushed(<<"radiation monitoring not active", 0>>,
                 ~emergency_status.radiation_monitoring_active)

(* a verdict that does not look at the emergency stop *)
safe_to_operate_without_stop(issues, emergency_stop_triggered) ==
    issues = {}

(* let safe_to_operate = issues.is_empty() && !self.emergency_stop_triggered *)
safe_to_operate(issues, emergency_stop_triggered) ==
    issues = {} /\ ~emergency_stop_triggered

(* SafetyManager::run_full_diagnostics: the manager after it and its result *)
run_full_diagnostics(self) ==
    LET issues == diagnostics_issues(self.config)
        result == [safe_to_operate |->
                       safe_to_operate(issues, self.emergency_stop_triggered),
                   checks_performed |-> 6 + 1 + 1 + 1,
                   issues |-> issues,
                   warnings |-> diagnostics_warnings(self.config)]
    IN [self |-> [self EXCEPT !.last_diagnostics = Some(result)],
        ret |-> result]

(* SafetyManager::trigger_emergency_stop *)
trigger_emergency_stop(self, reason) ==
    [self EXCEPT !.emergency_stop_triggered = TRUE]

(* SafetyManager::run_periodic_checks *)
run_periodic_checks(self) ==
    IF check_cooling_system.internal_temperature > self.config.critical_celsius
    THEN trigger_emergency_stop(self, "Critical temperature")
    ELSE self

(* SafetyManager::should_shutdown on an error whose lower-cased message
   contains the words of the set error *)
should_shutdown(self, error) ==
    \/ "temperature" \in error /\ "critical" \in error
    \/ "power" \in error /\ "fail" \in error
    \/ "emergency" \in error \/ "safety" \in error

(* SafetyManager::shutdown *)
safety_shutdown(self) == run_periodic_checks(self)

----------------------------------------------------------------------------
(* FrequencyScanner (scanner.rs). Frequencies are whole numbers of MHz held
   as f32 values. *)

(* RadarConfig::default().frequency_range *)
DefaultRange == [start |-> 24000, end |-> 24500, step |-> 1]

(* FrequencyScanner::new. readings holds the frequencies of the readings
   taken (not how many times each was taken); at tells whether quick_scan is
   in its loop, freq is its local variable and strong_signals the
   frequencies of the readings it has pushed to its result *)
FrequencyScanner_new(range) ==
    [current_range |-> range, readings |-> {}, at |-> "idle", freq |-> None,
     strong_signals |-> {}]

(* the spacing of the f32 values around x: 1 below 2^24 in size, doubling
   with every doubling above *)
RECURSIVE f32_spacing(_, _)
f32_spacing(x, u) ==
    IF (IF x < 0 THEN -x ELSE x) < 16777216 * u THEN u
    ELSE f32_spacing(x, 2 * u)

(* the f32 nearest to the whole number x, ties to the even significand *)
f32(x) ==
    LET u == f32_spacing(x, 1)
        below == (x \div u) * u
        rest == x - below
    IN IF 2 * rest < u THEN below
       ELSE IF 2 * rest > u THEN below + u
       ELSE IF (below \div u) % 2 = 0 THEN below ELSE below + u

(* the first lines of quick_scan: let mut freq = self.current_range.start *)
quick_scan_begin(self) ==
    [self EXCEPT !.at = "quick_scan", !.freq = Some(self.current_range.start),
                 !.strong_signals = {}]

(* whether quick_scan's loop takes another turn: freq <= end *)
quick_scan_goes_on(self) ==
    \E freq \in self.freq : freq <= self.current_range.end

(* one turn of quick_scan's loop: scan_frequency(freq) pushes a reading,
   which is pushed to the result too if strong, and freq += step *)
quick_scan_turn(self, strong) ==
    LET freq == CHOOSE f \in self.freq : TRUE
    IN [self EXCEPT
          !.readings = @ \cup {freq},
          !.strong_signals = IF strong THEN @ \cup {freq} ELSE @,
          !.freq = Some(f32(freq + self.current_range.step))]

(* quick_scan returns strong_signals *)
quick_scan_return(self) ==
    [self EXCEPT !.at = "idle", !.freq = None]

----------------------------------------------------------------------------
(* RadarLLFrame: the frames of the LD2412 and LD2450 sensors (lib.rs) *)

(* a slice pattern [head.., rest @ .., tail..]: the buffer starts with head,
   ends with tail, and the two do not overlap *)
Framed(buffer, head, tail) ==
    /\ Len(buffer) >= Len(head) + Len(tail)
    /\ SubSeq(buffer, 1, Len(head)) = head
    /\ SubSeq(buffer, Len(buffer) - Len(tail) + 1, Len(buffer)) = tail

(* RadarLLFrame::deserialize; panic is TRUE when the assert! on the length
   of a command frame fails *)
RadarLLFrame_deserialize(buffer) ==
    IF /\ Framed(buffer, <<253, 252, 251, 250>>, <<4, 3, 2, 1>>)
       /\ Len(buffer) >= 4 + 4 + 4
    THEN LET len == u16_from_le_bytes(buffer[5], buffer[6])
             opcode == u16_from_le_bytes(buffer[7], buffer[8])
             data == SubSeq(buffer, 9, Len(buffer) - 4)
         IN IF len = Len(data) + 2
            THEN [ret |-> Some([frame |-> "CommandAckFrame", opcode |-> opcode,
                                data |-> data]),
                  panic |-> FALSE]
            ELSE [ret |-> None, panic |-> TRUE]
    ELSE IF /\ Framed(buffer, <<244, 243, 242, 241>>, <<248, 247, 246, 245>>)
            /\ Len(buffer) >= 4 + 2 + 4
    THEN LET len == u16_from_le_bytes(buffer[5], buffer[6])
             intraframe == SubSeq(buffer, 7, Len(buffer) - 4)
         IN IF len # Len(intraframe)
            THEN [ret |-> None, panic |-> FALSE]
            ELSE [ret |-> Some([frame |-> "TargetFrame", opcode |-> 0,
                                data |-> intraframe]),
                  panic |-> FALSE]
    ELSE IF Framed(buffer, <<170, 255, 3, 0>>, <<85, 204>>)
    THEN [ret |-> Some([frame |-> "TargetFrame2D", opcode |-> 0,
                        data |-> SubSeq(buffer, 5, Len(buffer) - 2)]),
          panic |-> FALSE]
    ELSE [ret |-> None, panic |-> FALSE]

----------------------------------------------------------------------------
(* The state machine *)

tracker == [targets |-> targets, kalman_filters |-> kalman_filters,
            next_target_id |-> next_target_id]

(* the ids the latest operation returned as newly created *)
Returned ==
    IF last.op = "add_target" THEN last.ret
    ELSE IF last.op = "scan_result" THEN last.ret.created
    ELSE None

(* the tracker becomes self and the operation is recorded *)
Becomes(self, op, arg, ret) ==
    /\ targets' = self.targets
    /\ kalman_filters' = self.kalman_filters
    /\ next_target_id' = self.next_target_id
    /\ last' = [op |-> op, arg |-> arg, ret |-> ret]
    /\ issued' = issued \cup Returned

Init ==
    /\ targets = MultiTargetTracker_new.targets
    /\ kalman_filters = MultiTargetTracker_new.kalman_filters
    /\ next_target_id = MultiTargetTracker_new.next_target_id
    /\ now = 0
    /\ initialized = FALSE
    /\ pc = "idle"
    /\ signals_processed = 0
    /\ overflow_checks = FALSE
    /\ scan_results = 0
    /\ scanner = FrequencyScanner_new(DefaultRange)
    /\ safety_manager = SafetyManager_new(DefaultSafetyConfig)
    /\ steps = 0
    /\ panicked = FALSE
    /\ last = [op |-> "new", arg |-> None, ret |-> None]
    /\ issued = {}

Idle == pc = "idle" /\ ~panicked

(* the clock advances by one tick *)
Tick ==
    /\ ~panicked
    /\ now' = now + 1
    /\ Becomes(tracker, "tick", None, None)
    /\ UNCHANGED <<controller_vars, panicked>>

(* the clock advances by d ticks *)
Elapse(d) ==
    /\ ~panicked
    /\ now' = now + d
    /\ Becomes(tracker, "tick", None, None)
    /\ UNCHANGED <<controller_vars, panicked>>

AddTarget(antenna_id, position) ==
    /\ Idle
    /\ LET r == add_target(tracker, antenna_id, position, now)
       IN /\ Becomes(r.self, "add_target", <<antenna_id, position>>, r.ret)
          /\ panicked' = r.panic
    /\ UNCHANGED <<now, controller_vars>>

UpdateTarget(target_id, new_position) ==
    /\ Idle
    /\ LET r == update_target(tracker, target_id, new_position, now)
       IN /\ Becomes(r.self, "update_target", <<target_id, new_position>>, r.ret)
          /\ panicked' = r.panic
    /\ UNCHANGED <<now, controller_vars>>

PredictAllTargets(prediction_time) ==
    /\ Idle
    /\ LET r == predict_all_targets(tracker, prediction_time)
       IN Becomes(r.self, "predict_all_targets", prediction_time, r.ret)
    /\ UNCHANGED <<now, controller_vars, panicked>>

RemoveLostTargets(timeout) ==
    /\ Idle
    /\ LET r == remove_lost_targets(tracker, timeout, now)
       IN Becomes(r.self, "remove_lost_targets", timeout, r.ret)
    /\ UNCHANGED <<now, controller_vars, panicked>>

GetFallingTargets ==
    /\ Idle
    /\ Becomes(tracker, "get_falling_targets", None, get_falling_targets(tracker))
    /\ UNCHANGED <<now, controller_vars, panicked>>

ClearAllTargets ==
    /\ Idle
    /\ Becomes(clear_all_targets(tracker).self, "clear_all_targets", None, None)
    /\ UNCHANGED <<now, controller_vars, panicked>>

(* a trajectory request that moves the track to the end of the trajectory *)
GetFallPredictions_advancing(target_id, time_steps) ==
    /\ Idle
    /\ LET ret == get_fall_predictions(tracker, target_id, time_steps)
           moved(trajectory) ==
               IF trajectory = <<>> THEN tracker
               ELSE [tracker EXCEPT !.targets[target_id].position =
                        <<trajectory[Len(trajectory)][1] \div TrajScale,
                          trajectory[Len(trajectory)][2] \div TrajScale>>]
       IN Becomes(IF ret = None THEN tracker
                  ELSE moved(CHOOSE trajectory \in ret : TRUE),
                  "get_fall_predictions", <<target_id, time_steps>>, ret)
    /\ UNCHANGED <<now, controller_vars, panicked>>

(* MultiTargetTracker::get_fall_predictions, which takes &self *)
GetFallPredictions(target_id, time_steps) ==
    /\ Idle
    /\ Becomes(tracker, "get_fall_predictions", <<target_id, time_steps>>,
               get_fall_predictions(tracker, target_id, time_steps))
    /\ UNCHANGED <<now, controller_vars, panicked>>

(* FallDetector::analyze_fall_risk called on a track of the caller's, which
   has the given velocity and acceleration *)
AnalyzeFallRisk(velocity, acceleration) ==
    /\ Idle
    /\ LET target == [TrackedTarget_new(0, 0, <<0, 0>>, now) EXCEPT
                         !.velocity = velocity, !.acceleration = acceleration]
       IN Becomes(tracker, "analyze_fall_risk", <<velocity, acceleration>>,
                  analyze_fall_risk(target))
    /\ UNCHANGED <<now, controller_vars, panicked>>

(* FallDetector::analyze_fall_risk called on any track of the caller's *)
AnalyzeTrack(target) ==
    /\ Idle
    /\ Becomes(tracker, "analyze_track", target, analyze_fall_risk(target))
    /\ UNCHANGED <<now, controller_vars, panicked>>

(* KalmanFilter::update called on an estimator of the caller's; the unwrap
   panics before anything is written *)
KalmanUpdate(self, measurement) ==
    /\ Idle
    /\ LET inverse == try_inverse(innovation_covariance(self))
       IN /\ Becomes(tracker, "update", <<self, measurement>>,
                     IF inverse = None THEN self
                     ELSE update_with(self, measurement,
                                      CHOOSE s \in inverse : TRUE))
          /\ panicked' = (inverse = None)
    /\ UNCHANGED <<now, controller_vars>>

(* RadarController::initialize with a valid configuration *)
Initialize ==
    /\ Idle
    /\ Becomes(clear_all_targets(tracker).self, "initialize", None, None)
    /\ initialized' = TRUE
    /\ UNCHANGED <<now, pc, signals_processed, overflow_checks, scan_results,
                   scanner, safety_manager, panicked>>

(* RadarController::run_scan_cycle up to its loop *)
RunScanCycle ==
    /\ Idle
    /\ IF initialized
       THEN /\ pc' = "scan"
            /\ signals_processed' = 0
            /\ Becomes(tracker, "run_scan_cycle", None, "Ok")
       ELSE /\ UNCHANGED <<pc, signals_processed>>
            /\ Becomes(tracker, "run_scan_cycle", None, "Err")
    /\ UNCHANGED <<now, initialized, overflow_checks, scan_results, scanner,
                   safety_manager, panicked>>

(* one iteration of run_scan_cycle's loop, for a scan result that maps to
   (antenna_id, position) *)
ScanResult(antenna_id, position) ==
    /\ pc = "scan" /\ ~panicked
    /\ \E found \in find_nearby_target(tracker, position) :
          LET r == associate_or_create(tracker, antenna_id, position, found, now)
          IN /\ Becomes(r.self, "scan_result", <<antenna_id, position>>, r.ret)
             /\ panicked' = r.panic
    /\ signals_processed' = signals_processed + 1
    /\ UNCHANGED <<now, initialized, pc, overflow_checks, scan_results, scanner,
                   safety_manager>>

(* the length of scan_results once a cycle has added n results to len:
   extend, then one drain(0..500) if more than 1000 are held *)
extend_and_drain(len, n) ==
    IF len + n > 1000 THEN len + n - 500 ELSE len + n

(* n turns of run_scan_cycle's loop in a row, for scan results that all map
   to (antenna_id, position) within one tick of the clock: the first does
   what ScanResult does, and the others find a track at no distance in time
   (update_target with dt = 0) or fail to create one again, so they leave
   the tracker as it is *)
ScanResults(antenna_id, position, n) ==
    /\ pc = "scan" /\ ~panicked
    /\ n >= 1
    /\ \E found \in find_nearby_target(tracker, position) :
          LET r == associate_or_create(tracker, antenna_id, position, found, now)
          IN /\ Becomes(r.self, "scan_result", <<antenna_id, position>>, r.ret)
             /\ panicked' = r.panic
             /\ signals_processed' =
                    signals_processed + (IF r.panic THEN 1 ELSE n)
    /\ UNCHANGED <<now, initialized, pc, overflow_checks, scan_results, scanner,
                   safety_manager>>

(* run_scan_cycle after its loop: remove_lost_targets(30 s), then the results
   of the cycle, one per turn of the loop, are added to scan_results *)
ScanCycleEnd ==
    /\ pc = "scan" /\ ~panicked
    /\ LET r == remove_lost_targets(tracker, ScanTimeout, now)
       IN Becomes(r.self, "remove_lost_targets", ScanTimeout, r.ret)
    /\ scan_results' = extend_and_drain(scan_results, signals_processed)
    /\ pc' = "idle"
    /\ UNCHANGED <<now, initialized, signals_processed, overflow_checks,
                   scanner, safety_manager, panicked>>

(* one turn of the loop of run_foreground_mode when no signal is pending:
   tokio::select! makes its futures anew, the timer sleep(30 s) among them,
   and polls them once each starting with a branch of its choice, first.
   The timer is ready if 30 s have gone by since it was made; the future of
   run_scan_cycle never waits (set_state is ready at once and the scanner
   blocks the thread), so it is ready whenever it is polled and runs the
   cycle to its end. *)
Select(first) ==
    /\ Idle /\ initialized
    /\ LET made == now
           deadline == made + SafetyPeriod
           sleep_ready == first = "sleep" /\ now >= deadline
       IN IF sleep_ready
          THEN /\ Becomes(tracker, "select", first, "run_periodic_checks")
               /\ safety_manager' = run_periodic_checks(safety_manager)
               /\ UNCHANGED <<pc, signals_processed>>
          ELSE /\ Becomes(tracker, "select", first, "run_scan_cycle")
               /\ pc' = "scan"
               /\ signals_processed' = 0
               /\ UNCHANGED safety_manager
    /\ UNCHANGED <<now, initialized, overflow_checks, scan_results, scanner,
                   panicked>>

(* RadarController::shutdown *)
Shutdown ==
    /\ Idle
    /\ Becomes(clear_all_targets(tracker).self, "shutdown", None, None)
    /\ initialized' = FALSE
    /\ scan_results' = 0
    /\ UNCHANGED <<now, pc, signals_processed, overflow_checks, scanner,
                   safety_manager, panicked>>

(* Ld2450TargetData::deserialize called on a buffer of the caller's *)
Deserialize(buffer) ==
    /\ Idle
    /\ Becomes(tracker, "deserialize", buffer, deserialize(buffer))
    /\ UNCHANGED <<now, controller_vars, panicked>>

(* SafetyManager::run_full_diagnostics *)
RunFullDiagnostics ==
    /\ ~panicked
    /\ LET r == run_full_diagnostics(safety_manager)
       IN /\ Becomes(tracker, "run_full_diagnostics", None, r.ret)
          /\ safety_manager' = r.self
    /\ UNCHANGED <<now, radar_vars, scanner, panicked>>

(* SafetyManager::run_periodic_checks *)
RunPeriodicChecks ==
    /\ ~panicked
    /\ Becomes(tracker, "run_periodic_checks", None, "Ok")
    /\ safety_manager' = run_periodic_checks(safety_manager)
    /\ UNCHANGED <<now, radar_vars, scanner, panicked>>

(* SafetyManager::trigger_emergency_stop *)
TriggerEmergencyStop(reason) ==
    /\ ~panicked
    /\ Becomes(tracker, "trigger_emergency_stop", reason, "Ok")
    /\ safety_manager' = trigger_emergency_stop(safety_manager, reason)
    /\ UNCHANGED <<now, radar_vars, scanner, panicked>>

(* SafetyManager::should_shutdown *)
ShouldShutdown(error) ==
    /\ ~panicked
    /\ Becomes(tracker, "should_shutdown", error,
               should_shutdown(safety_manager, error))
    /\ UNCHANGED <<now, controller_vars, panicked>>

(* SafetyManager::shutdown *)
SafetyShutdown ==
    /\ ~panicked
    /\ Becomes(tracker, "safety_shutdown", None, "Ok")
    /\ safety_manager' = safety_shutdown(safety_manager)
    /\ UNCHANGED <<now, radar_vars, scanner, panicked>>

(* RadarLLFrame::deserialize called on the bytes read so far, as the loop of
   the example program does after every byte *)
DeserializeFrame(buffer) ==
    /\ ~panicked
    /\ LET r == RadarLLFrame_deserialize(buffer)
       IN /\ Becomes(tracker, "RadarLLFrame::deserialize", buffer, r.ret)
          /\ panicked' = r.panic
    /\ UNCHANGED <<now, controller_vars>>

(* FrequencyScanner::new on the range read by get_user_input *)
NewScanner(range) ==
    /\ ~panicked /\ scanner.at = "idle"
    /\ Becomes(tracker, "FrequencyScanner::new", range, None)
    /\ scanner' = FrequencyScanner_new(range)
    /\ UNCHANGED <<now, radar_vars, safety_manager, panicked>>

(* FrequencyScanner::quick_scan is called *)
QuickScan ==
    /\ ~panicked /\ scanner.at = "idle"
    /\ Becomes(tracker, "quick_scan", scanner.current_range, None)
    /\ scanner' = quick_scan_begin(scanner)
    /\ UNCHANGED <<now, radar_vars, safety_manager, panicked>>

(* one turn of the loop of quick_scan, for a reading that is strong or not *)
QuickScanTurn(strong) ==
    /\ ~panicked /\ scanner.at = "quick_scan"
    /\ quick_scan_goes_on(scanner)
    /\ Becomes(tracker, "scan_frequency", scanner.freq, None)
    /\ scanner' = quick_scan_turn(scanner, strong)
    /\ UNCHANGED <<now, radar_vars, safety_manager, panicked>>

(* the loop of quick_scan is left and quick_scan returns *)
QuickScanReturn ==
    /\ ~panicked /\ scanner.at = "quick_scan"
    /\ ~quick_scan_goes_on(scanner)
    /\ Becomes(tracker, "quick_scan_return", scanner.current_range,
               scanner.strong_signals)
    /\ scanner' = quick_scan_return(scanner)
    /\ UNCHANGED <<now, radar_vars, safety_manager, panicked>>

(* an operation of a behaviour that is cut after n operations *)
Step(n, A) == steps < n /\ A /\ steps' = steps + 1

(* an operation of a behaviour that is not cut by the number of operations *)
Free(A) == A /\ UNCHANGED steps

(* no live track has taken n coast cycles in a row *)
CoastBelow(n) == \A id \in DOMAIN targets : targets[id].prediction_count < n

(* the ids an update can name: those of the first tracks, live or not *)
UpdateIds == 0..2

(* the tracker driven through its public operations *)
Next ==
    \/ Step(MaxSteps, Tick)
    \/ \E a \in Antennas, p \in TrackPositions : Step(MaxSteps, AddTarget(a, p))
    \/ \E id \in UpdateIds, p \in TrackPositions : Step(MaxSteps, UpdateTarget(id, p))
    \/ \E d \in PredictionTimes : Step(MaxSteps, PredictAllTargets(d))
    \/ \E t \in Timeouts : Step(MaxSteps, RemoveLostTargets(t))
    \/ Step(MaxSteps, GetFallingTargets)
    \/ Step(MaxSteps, ClearAllTargets)

Spec == Init /\ [][Next]_vars

(* the tracker driven by the controller *)
NextController ==
    \/ Step(ScanSteps, Tick)
    \/ Step(ScanSteps, Initialize)
    \/ Step(ScanSteps, RunScanCycle)
    \/ \E a \in Antennas, p \in Positions : Step(ScanSteps, ScanResult(a, p))
    \/ Step(ScanSteps, ScanCycleEnd)
    \/ Step(ScanSteps, Shutdown)

SpecController == Init /\ [][NextController]_vars

(* many creations on two channels, one position; tracks leave by timeout or
   by clear_all_targets *)
NextCapacity ==
    \/ now < CapTime /\ Free(Tick)
    \/ \E a \in Antennas :
          next_target_id < CapIds /\ Free(AddTarget(a, <<0, 0>>))
    \/ Free(RemoveLostTargets(0))
    \/ Free(ClearAllTargets)

SpecCapacity == Init /\ [][NextCapacity]_vars

(* the capacity test of run_stress_test on one channel: creations submitted
   to channel 0 of a new tracker, one after another, as the clock runs *)
NextStress ==
    \/ now < CapTime /\ Free(Tick)
    \/ \E p \in TrackPositions : Step(StressAdds, AddTarget(0, p))

SpecStress == Init /\ [][NextStress]_vars

(* the lengths of the trajectories asked for *)
TimeSteps == {0, 2}

(* tracks of one channel created, measured, pruned and cleared, with
   updates and trajectory requests by id, live or not *)
NextLookup ==
    \/ Step(MaxSteps, Tick)
    \/ Step(MaxSteps, AddTarget(0, <<0, 0>>))
    \/ \E id \in UpdateIds : Step(MaxSteps, UpdateTarget(id, <<140, 50>>))
    \/ Step(MaxSteps, RemoveLostTargets(0))
    \/ Step(MaxSteps, ClearAllTargets)
    \/ \E id \in UpdateIds, n \in TimeSteps : Free(GetFallPredictions(id, n))

SpecLookup == Init /\ [][NextLookup]_vars

(* estimators as predict leaves them, 0.1 s and 1 s after a state with the
   position, the velocity and the acceleration given *)
EstimatorStates ==
    {predict([KalmanFilter_new(p) EXCEPT
                 !.state = <<p[1], p[2], v[1], v[2], a[1], a[2]>>], dt) :
        p \in Positions, v \in {<<0, 0>>, <<0, -300>>, <<500, 0>>},
        a \in {<<0, 0>>, <<0, -1000>>}, dt \in {1, TicksPerSec}}

(* the estimator's correction on its own *)
NextEstimator ==
    \E self \in EstimatorStates, measurement \in Positions :
        Free(KalmanUpdate(self, measurement))

SpecEstimator == Init /\ [][NextEstimator]_vars

(* where a target is when it starts to fall: 10 m, 15 m and 20 m up at
   three different x *)
FallStarts == {<<0, 1000>>, <<140, 1500>>, <<300, 2000>>}

(* where a target that began to fall from start at time 0 is at time t:
   0.5 * 9.81 * t^2 below start *)
FallPosition(start, t) == <<start[1], start[2] - (981 * t * t) \div 200>>

(* the caller sleeps d ticks and then gives update_target the position of
   the falling target, as the loop of run_multi_target_demo does every
   100 ms *)
FallMeasurement(id, d) ==
    /\ Idle
    /\ id \in DOMAIN targets
    /\ LET start == CHOOSE f \in FallStarts : f[1] = targets[id].position[1]
           new_pos == FallPosition(start, now + d)
           r == update_target(tracker, id, new_pos, now + d)
       IN /\ Becomes(r.self, "update_target", <<id, new_pos>>, r.ret)
          /\ panicked' = r.panic
    /\ now' = now + d
    /\ UNCHANGED controller_vars

(* one target, first seen at time 0 as it starts to fall, measured every
   0.1 s or 0.2 s since *)
NextDescent ==
    \/ targets = Empty /\ now = 0
          /\ \E start \in FallStarts : Step(DescentSteps, AddTarget(0, start))
    \/ \E id \in DOMAIN targets, d \in {1, 2} :
          Step(DescentSteps, FallMeasurement(id, d))

SpecDescent == Init /\ [][NextDescent]_vars

(* 8-byte target slots: no target; the example of the sensor's manual;
   words with only the flag set and with every bit set; words with every
   bit but the flag set; a slot with only a distance resolution; a slot
   with a single low byte *)
Slots ==
    {<<0, 0, 0, 0, 0, 0, 0, 0>>,
     <<14, 3, 177, 134, 16, 0, 64, 1>>,
     <<0, 128, 255, 255, 1, 128, 255, 255>>,
     <<255, 127, 255, 127, 255, 127, 0, 128>>,
     <<0, 0, 0, 0, 0, 0, 1, 0>>,
     <<0, 0, 1, 0, 0, 0, 0, 0>>}

(* buffers of three slots, one byte short of three slots, and three slots
   with two bytes more *)
Buffers ==
    {a \o b \o c : a \in Slots, b \in Slots, c \in Slots}
    \cup {SubSeq(a \o b \o c, 1, 23) : a \in Slots, b \in Slots, c \in Slots}
    \cup {a \o a \o a \o <<85, 204>> : a \in Slots}

(* the decoder on its own *)
NextLd2450 == \E buffer \in Buffers : Free(Deserialize(buffer))

SpecLd2450 == Init /\ [][NextLd2450]_vars

(* the main loop running scan cycle after scan cycle while time goes by in
   steps of 5 s; the scans yield a few detections early on and none after *)
NextQuiet ==
    \/ ~initialized /\ Free(Initialize)
    \/ initialized /\ Free(RunScanCycle)
    \/ \E a \in Antennas, p \in Positions :
          now <= QuietFrom /\ Step(QuietDetections, ScanResult(a, p))
    \/ Free(ScanCycleEnd)
    \/ now < QuietUntil /\ Free(Elapse(QuietStep))

(* time goes by, and the loop of run_foreground_mode starts a scan cycle
   whenever none runs and carries each one to its end.  Each fairness
   condition names a step of NextQuiet by what it does to the clock, to
   initialized or to pc: the steps of Elapse, Initialize, RunScanCycle and
   ScanCycleEnd in that order. *)
SpecQuiet ==
    /\ Init /\ [][NextQuiet]_vars
    /\ WF_now(~panicked /\ now < QuietUntil /\ now' = now + QuietStep)
    /\ WF_initialized(Idle /\ ~initialized /\ initialized' = TRUE)
    /\ WF_pc(Idle /\ initialized /\ pc' = "scan")
    /\ WF_pc(pc = "scan" /\ ~panicked /\ pc' = "idle")

(* the branches of the select that can be polled first when no signal is
   pending: the signal branches are then not ready *)
Branches == {"sigint", "sigterm", "run_scan_cycle", "sleep"}

(* the loop of run_foreground_mode: turn after turn of the select, each scan
   cycle taking the time its refined scans sleep, 1 s or 5 s at a time;
   the scans yield detections early on *)
NextLoop ==
    \/ ~initialized /\ Free(Initialize)
    \/ \E first \in Branches : Free(Select(first))
    \/ \E d \in {10, 50} : pc = "scan" /\ now < LoopUntil /\ Free(Elapse(d))
    \/ \E a \in Antennas, p \in Positions :
          now <= QuietFrom /\ Step(LoopDetections, ScanResult(a, p))
    \/ Free(ScanCycleEnd)

(* the loop keeps turning: the controller is initialized, a select that the
   scan cycle wins follows every scan cycle and every scan cycle comes to
   its end *)
SpecLoop ==
    /\ Init /\ [][NextLoop]_vars
    /\ WF_initialized(Idle /\ ~initialized /\ initialized' = TRUE)
    /\ WF_pc(Idle /\ initialized /\ pc' = "scan")
    /\ WF_pc(pc = "scan" /\ ~panicked /\ pc' = "idle")

(* the safety configurations a manager is made with: a critical temperature
   below some antennas, below the inside of the case only, or above both; a
   power limit below or above the draw; a voltage tolerance below or above
   the deviation *)
SafetyConfigs ==
    [warning_celsius : {700}, critical_celsius : {260, 300, 850},
     max_power_watts : {10000, 15000}, voltage_tolerance : {50, 1000}]

(* the errors should_shutdown is asked about, by the words they contain *)
SafetyErrors == {{"radar"}, {"temperature", "critical"}, {"safety"}}

InitSafety ==
    /\ targets = MultiTargetTracker_new.targets
    /\ kalman_filters = MultiTargetTracker_new.kalman_filters
    /\ next_target_id = MultiTargetTracker_new.next_target_id
    /\ now = 0
    /\ initialized = FALSE
    /\ pc = "idle"
    /\ signals_processed = 0
    /\ overflow_checks = FALSE
    /\ scan_results = 0
    /\ scanner = FrequencyScanner_new(DefaultRange)
    /\ safety_manager \in {SafetyManager_new(c) : c \in SafetyConfigs}
    /\ steps = 0
    /\ panicked = FALSE
    /\ last = [op |-> "new", arg |-> None, ret |-> None]
    /\ issued = {}

(* a SafetyManager driven through its operations *)
NextSafety ==
    \/ Step(SafetySteps, RunFullDiagnostics)
    \/ Step(SafetySteps, RunPeriodicChecks)
    \/ \E reason \in {"Critical temperature", "operator"} :
          Step(SafetySteps, TriggerEmergencyStop(reason))
    \/ \E error \in SafetyErrors : Step(SafetySteps, ShouldShutdown(error))
    \/ Step(SafetySteps, SafetyShutdown)

SpecSafety == InitSafety /\ [][NextSafety]_vars

(* the numbers of results that map to one place in a cycle of SpecHistory *)
BatchSizes == {1, 500, 1501}

(* the controller through scan cycles of many results at one place *)
NextHistory ==
    \/ Free(Initialize)
    \/ Free(RunScanCycle)
    \/ \E n \in BatchSizes :
          Step(HistoryBatches, ScanResults(0, <<0, 0>>, n))
    \/ Free(ScanCycleEnd)
    \/ Free(Shutdown)

SpecHistory == Init /\ [][NextHistory]_vars

(* the buffers handed to RadarLLFrame::deserialize: a header or four other
   bytes, two bytes that a length is read from, up to PayloadLen further
   bytes, and a trailer or none *)
FrameHeads ==
    {<<253, 252, 251, 250>>, <<244, 243, 242, 241>>, <<170, 255, 3, 0>>,
     <<1, 2, 3, 4>>}
FrameTails == {<<4, 3, 2, 1>>, <<248, 247, 246, 245>>, <<85, 204>>, << >>}
FramePayloads == UNION {[1..n -> {0, 7}] : n \in 0..PayloadLen}
FrameBuffers ==
    {head \o <<len_l, 0>> \o payload \o tail :
        head \in FrameHeads, len_l \in 0..(PayloadLen + 2),
        payload \in FramePayloads, tail \in FrameTails}
    \cup {<< >>, <<253, 252, 251, 250, 4, 3, 2, 1>>,
          <<244, 243, 242, 241, 248, 247, 246, 245>>}

(* frames parsed one after the other until one makes the parser panic *)
NextFrame ==
    \E buffer \in FrameBuffers : Step(FrameSteps, DeserializeFrame(buffer))

SpecFrame == Init /\ [][NextFrame]_vars

(* the ranges a scanner is made with, unvalidated: around 100 MHz, and around
   the largest size at which f32 still counts by ones (2^24 = 16777216),
   going up or, below zero, down; an end before or after the start; a step
   that is negative, zero or positive. A descent is started near -2^24 only,
   where it comes to rest within a few turns. *)
ScanRanges ==
    {r \in [start : {100, 16777214, -16777214}, length : {-1, ScanSpan},
            step : {-1, 0, 1, 2}] : r.step < 0 => r.start < 0}

(* the FrequencyRange of a choice of ScanRanges *)
FrequencyRange(r) ==
    [start |-> r.start, end |-> r.start + r.length, step |-> r.step]

(* the scanner program: a scanner is made from the input, then swept with
   quick_scan; a sweep under way takes its turns and returns when its loop
   is left *)
NextScan ==
    \/ \E range \in ScanRanges :
          Step(ScanSetups, NewScanner(FrequencyRange(range)))
    \/ steps > 0 /\ Free(QuickScan)
    \/ \E strong \in BOOLEAN : Free(QuickScanTurn(strong))
    \/ Free(QuickScanReturn)

SpecScan ==
    /\ Init /\ [][NextScan]_vars
    /\ WF_scanner(/\ scanner.at = "quick_scan" /\ ~panicked
                  /\ quick_scan_goes_on(scanner)
                  /\ \E strong \in BOOLEAN :
                        scanner' = quick_scan_turn(scanner, strong))
    /\ WF_scanner(/\ scanner.at = "quick_scan" /\ ~panicked
                  /\ ~quick_scan_goes_on(scanner)
                  /\ scanner' = quick_scan_return(scanner))

(* the lengths of the trajectories previewed *)
PreviewSteps == {1, 3}

(* tracks created, measured and coasted, and their trajectories previewed *)
NextPreview ==
    \/ Step(MaxSteps, Tick)
    \/ \E p \in {<<0, 0>>, <<140, 50>>} : Step(MaxSteps, AddTarget(0, p))
    \/ \E id \in DOMAIN targets, p \in {<<0, 0>>, <<140, 50>>} :
          Step(MaxSteps, UpdateTarget(id, p))
    \/ \E d \in PredictionTimes : Step(MaxSteps, PredictAllTargets(d))
    \/ \E id \in UpdateIds, n \in PreviewSteps : Free(GetFallPredictions(id, n))

SpecPreview == Init /\ [][NextPreview]_vars

(* detection positions 3 m apart along a line, more of them than a channel
   has room for *)
LinePositions == {<<300 * k, 0>> : k \in 0..8}

(* scan cycles on channel 0 whose detections are at the positions of the
   live tracks or at the next position along the line *)
NextCycle ==
    \/ pc = "idle" /\ Step(CycleSteps, Tick)
    \/ Step(CycleSteps, Initialize)
    \/ Step(CycleSteps, RunScanCycle)
    \/ \E p \in LinePositions :
          /\ p[1] <= 300 * Cardinality(DOMAIN targets)
          /\ Step(CycleSteps, ScanResult(0, p))
    \/ Step(CycleSteps, ScanCycleEnd)

SpecCycle == Init /\ [][NextCycle]_vars

(* velocities and accelerations at, just beyond and well beyond each
   threshold of the fall detector: 2.0 and 4.0 m/s, 9.5 and 15.0 m/s^2 *)
ScoreVelocities ==
    {<<0, 0>>, <<0, -200>>, <<0, -201>>, <<400, 0>>, <<401, 0>>,
     <<240, 320>>, <<0, -500>>}
ScoreAccelerations ==
    {<<0, 0>>, <<0, -950>>, <<0, -951>>, <<1500, 0>>, <<1501, 0>>,
     <<900, 1200>>, <<0, -1600>>, <<0, -1000>>}

(* tracks with those kinematics that differ in every other field *)
ScoreTargets ==
    {[TrackedTarget_new(id, id, <<140 * id, 50>>, id) EXCEPT
          !.velocity = v, !.acceleration = a,
          !.state = IF id = 0 THEN "Tracking" ELSE "Predicted",
          !.confidence = ProbScale \div (id + 1),
          !.prediction_count = 3 * id,
          !.fall_probability = id * ProbScale] :
        v \in ScoreVelocities, a \in ScoreAccelerations, id \in {0, 1}}

(* the fall detector on its own *)
NextScore == \E target \in ScoreTargets : Free(AnalyzeTrack(target))

SpecScore == Init /\ [][NextScore]_vars

(* the intervals between the measurements of a track: 0.6 s and 6 s *)
Intervals == {6, 60}

(* one track measured at intervals: the clock advances by an interval only
   when the track has just been created or measured *)
NextSingular ==
    \/ targets = Empty /\ next_target_id = 0 /\ Free(AddTarget(0, <<0, 0>>))
    \/ \E d \in Intervals :
          /\ now + d <= LastTick
          /\ \A id \in DOMAIN targets : targets[id].last_update = now
          /\ Free(Elapse(d))
    \/ \E id \in DOMAIN targets : Free(UpdateTarget(id, <<140, 50>>))

SpecSingular == Init /\ [][NextSingular]_vars

(* long runs of coast cycles of one track at a time, a measurement now and
   then: a track is created when none is live *)
NextPrune ==
    \/ now < PruneTime /\ Free(Tick)
    \/ next_target_id < PruneIds /\ targets = Empty /\ Free(AddTarget(0, <<0, 0>>))
    \/ \E id \in DOMAIN targets : Free(UpdateTarget(id, <<0, 0>>))
    \/ CoastBelow(LongCoast) /\ targets # Empty /\ Free(PredictAllTargets(1))
    \/ \E t \in {0, ScanTimeout} : Free(RemoveLostTargets(t))

SpecPrune == Init /\ [][NextPrune]_vars

(* velocities and accelerations on both sides of each threshold of the fall
   detector, one condition at a time and all together *)
Velocities == {<<0, 0>>, <<0, -300>>, <<500, 0>>, <<0, -500>>}
Accelerations == {<<0, 0>>, <<0, -1000>>, <<1600, 0>>, <<0, -1600>>}

(* one track through measurements and coast cycles, and the fall detector
   called on its own *)
NextRisk ==
    \/ Step(MaxSteps, Tick)
    \/ Step(MaxSteps, AddTarget(0, <<0, 0>>))
    \/ \E id \in DOMAIN targets, p \in TrackPositions :
          Step(MaxSteps, UpdateTarget(id, p))
    \/ \E d \in PredictionTimes : Step(MaxSteps, PredictAllTargets(d))
    \/ \E v \in Velocities, a \in Accelerations : Free(AnalyzeFallRisk(v, a))

SpecRisk == Init /\ [][NextRisk]_vars

(* a tracker late in a long life: it has issued every id below 2^32 - 2, its
   tracks are gone, and the build is either one *)
InitWrap ==
    /\ targets = Empty
    /\ kalman_filters = Empty
    /\ next_target_id = U32Max - 1
    /\ now = 0
    /\ initialized = FALSE
    /\ pc = "idle"
    /\ signals_processed = 0
    /\ overflow_checks \in BOOLEAN
    /\ scan_results = 0
    /\ scanner = FrequencyScanner_new(DefaultRange)
    /\ safety_manager = SafetyManager_new(DefaultSafetyConfig)
    /\ steps = 0
    /\ panicked = FALSE
    /\ last = [op |-> "clear_all_targets", arg |-> None, ret |-> None]
    /\ issued = {0, 1, U32Max - 2}

SpecWrap == InitWrap /\ [][Next]_vars

(* a tracker whose channel 0 is full: the state after eight add_target(0, p)
   calls on a new tracker, at tick 0 *)
FullTracker ==
    [targets |-> [id \in 0..(max_targets_per_antenna - 1) |->
                     TrackedTarget_new(id, 0, <<0, 0>>, 0)],
     kalman_filters |-> [id \in 0..(max_targets_per_antenna - 1) |->
                     KalmanFilter_new(<<0, 0>>)],
     next_target_id |-> max_targets_per_antenna]

InitFull ==
    /\ targets = FullTracker.targets
    /\ kalman_filters = FullTracker.kalman_filters
    /\ next_target_id = FullTracker.next_target_id
    /\ now = 0
    /\ initialized = FALSE
    /\ pc = "idle"
    /\ signals_processed = 0
    /\ overflow_checks = FALSE
    /\ scan_results = 0
    /\ scanner = FrequencyScanner_new(DefaultRange)
    /\ safety_manager = SafetyManager_new(DefaultSafetyConfig)
    /\ steps = 0
    /\ panicked = FALSE
    /\ last = [op |-> "add_target", arg |-> <<0, <<0, 0>>>>,
               ret |-> Some(max_targets_per_antenna - 1)]
    /\ issued = 0..(max_targets_per_antenna - 2)

(* the public operations on the full tracker; creations on both channels *)
NextFull ==
    \/ Step(MaxSteps, Tick)
    \/ \E a \in Antennas, p \in TrackPositions : Step(MaxSteps, AddTarget(a, p))
    \/ \E id \in UpdateIds : Step(MaxSteps, UpdateTarget(id, <<140, 50>>))
    \/ \E d \in PredictionTimes : Step(MaxSteps, PredictAllTargets(d))
    \/ \E t \in Timeouts : Step(MaxSteps, RemoveLostTargets(t))
    \/ Step(MaxSteps, ClearAllTargets)

SpecFull == InitFull /\ [][NextFull]_vars

----------------------------------------------------------------------------
(* Properties *)

(* every channel a track can be on *)
Channels == Antennas \cup {targets[id].antenna_id : id \in DOMAIN targets}

(* C1: for every channel c, the number of live tracks whose antenna_id is c
   never exceeds max_targets_per_antenna (8), whatever operations are called
   on a tracker whose channel 0 is full *)
C1_PerChannelCapacity ==
    \A c \in Channels :
        get_target_count_by_antenna(tracker, c) <= max_targets_per_antenna

(* C1 witness: a creation on a channel holding 8 tracks has just been refused,
   after tracks of the other channel were created *)
C1_Witness ==
    /\ last.op = "add_target"
    /\ last.ret = None
    /\ get_target_count_by_antenna(tracker, last.arg[1]) = max_targets_per_antenna
    /\ \E c \in Channels : /\ c # last.arg[1]
                           /\ get_target_count_by_antenna(tracker, c) > 0

(* C2: the ids of the track map and the ids of the estimator map are the same
   set after every operation *)
C2_SameIds == DOMAIN targets = DOMAIN kalman_filters

(* C2 witness: a pruning has just removed some tracks and left others *)
C2_Witness ==
    /\ last.op = "remove_lost_targets"
    /\ DOMAIN last.ret # {}
    /\ targets # Empty

(* C3: every id a creation returns is greater than every id returned before
   it, however many creations there have been *)
C3_StrictlyIncreasingIds ==
    \A id \in Returned : \A earlier \in issued : U32Less(earlier, id)

(* the tracks whose state is Falling *)
FallingState == {id \in DOMAIN targets : targets[id].state = "Falling"}

(* C4: what get_falling_targets returns is exactly the set of live tracks
   whose state is Falling *)
C4_FallingQuery ==
    last.op = "get_falling_targets" => last.ret = FallingState

(* C4 witness: the query has been answered with a track that a measurement
   updated and a track that a coast cycle then left in state Predicted *)
C4_Witness ==
    /\ last.op = "get_falling_targets"
    /\ \E id \in DOMAIN targets : /\ targets[id].state = "Predicted"
                                  /\ targets[id].last_update > 0

(* C5: after remove_lost_targets(timeout) no live track was last updated
   more than timeout ago, and no removed track has an entry in the track map
   or in the estimator map *)
C5_PruneByTimeout ==
    last.op = "remove_lost_targets" =>
        /\ \A id \in DOMAIN targets :
              now - targets[id].last_update <= last.arg
        /\ \A id \in DOMAIN last.ret :
              id \notin DOMAIN targets /\ id \notin DOMAIN kalman_filters

(* C5 witness: a pruning has removed a track for its idle time alone and
   kept a younger one *)
C5_Witness ==
    /\ last.op = "remove_lost_targets"
    /\ targets # Empty
    /\ \E id \in DOMAIN last.ret :
          /\ now - last.ret[id].last_update > last.arg
          /\ last.ret[id].confidence >= ConfidenceFloor
          /\ last.ret[id].prediction_count <= 10

(* C6: after remove_lost_targets every live track has confidence at least
   0.1 and has coasted at most 10 times since its last measurement *)
C6_PruneByQuality ==
    last.op = "remove_lost_targets" =>
        \A id \in DOMAIN targets :
            /\ targets[id].confidence >= ConfidenceFloor
            /\ targets[id].prediction_count <= 10

(* C6 witness: a pruning has removed a track for its confidence alone: it
   was younger than the timeout and had coasted 10 times *)
C6_Witness ==
    /\ last.op = "remove_lost_targets"
    /\ \E id \in DOMAIN last.ret :
          /\ last.ret[id].confidence < ConfidenceFloor
          /\ last.ret[id].prediction_count = 10
          /\ now - last.ret[id].last_update <= last.arg

(* C7: the confidence of every live track is between 0 and 1 after any
   sequence of measurements and coast cycles *)
C7_ConfidenceRange ==
    \A id \in DOMAIN targets :
        targets[id].confidence >= 0 /\ targets[id].confidence <= ProbScale

(* C7 witness: a measurement has just raised the confidence of a track that
   had coasted below 0.1, to a value short of 1 *)
C7_Witness ==
    /\ last.op = "update_target"
    /\ last.ret = TRUE
    /\ \E id \in DOMAIN targets :
          /\ id = last.arg[1]
          /\ targets[id].confidence > SmoothGain
          /\ targets[id].confidence < SmoothGain + ConfidenceFloor

(* C8: the fall probability of every live track is between 0 and 1, and so
   is what analyze_fall_risk returns for any velocity and acceleration *)
C8_FallProbabilityRange ==
    /\ \A id \in DOMAIN targets :
          /\ targets[id].fall_probability >= 0
          /\ targets[id].fall_probability <= ProbScale
    /\ last.op = "analyze_fall_risk" =>
          last.ret >= 0 /\ last.ret <= ProbScale

(* C8 witness: with a measured track live, analyze_fall_risk has been given
   kinematics that meet all four of its conditions *)
C8_Witness ==
    /\ last.op = "analyze_fall_risk"
    /\ last.arg = <<(<<0, -500>>), (<<0, -1600>>)>>
    /\ last.ret = ProbScale
    /\ \E id \in DOMAIN targets : targets[id].state = "Tracking"

(* the squared distance from a live track to a position, and the live tracks
   closer to it than the 2 m gate *)
DistSq(id, position) ==
    NormSq(<<targets[id].position[1] - position[1],
             targets[id].position[2] - position[2]>>)

InGate(position) ==
    {id \in DOMAIN targets : DistSq(id, position) < (2 * PosScale) * (2 * PosScale)}

(* what a step of the scan loop did to the tracker *)
NoneCreated ==
    /\ DOMAIN targets' = DOMAIN targets
    /\ DOMAIN kalman_filters' = DOMAIN kalman_filters
    /\ next_target_id' = next_target_id
    /\ last'.ret.created = None

OneCreated ==
    /\ next_target_id \notin DOMAIN targets
    /\ DOMAIN targets' = DOMAIN targets \cup {next_target_id}
    /\ last'.ret.created = Some(next_target_id)

NoneUpdated ==
    /\ ~last'.ret.updated
    /\ \A id \in DOMAIN targets : /\ targets'[id] = targets[id]
                                  /\ kalman_filters'[id] = kalman_filters[id]

Updated(id) ==
    /\ last'.ret.updated
    /\ targets'[id].last_update = now
    /\ targets'[id].prediction_count = 0
    /\ \A other \in DOMAIN targets \ {id} : targets'[other] = targets[other]

(* a detection farther than the gate from every live track, with room on its
   channel, creates exactly one track and updates none *)
FarCreates(antenna_id, position) ==
    (/\ InGate(position) = {}
     /\ get_target_count_by_antenna(tracker, antenna_id) < max_targets_per_antenna)
        => OneCreated /\ NoneUpdated

(* C9 as stated: a detection within the gate of exactly one live track
   updates that track and creates none; a detection farther than the gate
   from every live track, with room on its channel, creates exactly one track
   and updates none *)
C9_GatingAsStated ==
    [][last'.op = "scan_result" =>
          /\ \A id \in InGate(last'.arg[2]) :
                InGate(last'.arg[2]) = {id} => Updated(id) /\ NoneCreated
          /\ FarCreates(last'.arg[1], last'.arg[2])]_vars

(* C9: a detection within the gate of exactly one live track is associated
   with that track and creates none; it updates the track when time has
   passed since the track's last update and changes nothing otherwise.  A
   detection farther than the gate from every live track, with room on its
   channel, creates exactly one track and updates none. *)
C9_Gating ==
    [][last'.op = "scan_result" =>
          /\ \A id \in InGate(last'.arg[2]) :
                InGate(last'.arg[2]) = {id} =>
                    /\ last'.ret.found = Some(id)
                    /\ NoneCreated
                    /\ IF now > targets[id].last_update
                       THEN Updated(id)
                       ELSE NoneUpdated
          /\ FarCreates(last'.arg[1], last'.arg[2])]_vars

(* C9 witness: the scan loop has created a track for a detection farther
   than the gate from the live track, which an earlier detection within its
   gate had updated *)
C9_Witness ==
    /\ last.op = "scan_result"
    /\ last.ret.near = {}
    /\ last.ret.created # None
    /\ \E id \in DOMAIN targets :
          /\ id \notin last.ret.created
          /\ targets[id].state = "Tracking"
          /\ \A p \in Positions : kalman_filters[id] # KalmanFilter_new(p)

(* C10: a detection within the gate of several live tracks is associated
   with a nearest of them, whatever the order the map yields them in *)
C10_NearestChosen ==
    [][(last'.op = "scan_result" /\ Cardinality(InGate(last'.arg[2])) > 1) =>
          \E id \in last'.ret.found :
              \A other \in InGate(last'.arg[2]) :
                  DistSq(id, last'.arg[2]) <= DistSq(other, last'.arg[2])]_vars

(* the creations that succeeded so far, and, where every operation counted
   is a creation, those that were refused *)
Created == issued \cup Returned
Rejections == steps - Cardinality(Created)

(* C11: of the creations submitted to an empty channel of capacity 8, the
   first 8 succeed and every later one is refused; after 10 submissions the
   channel holds exactly 8 live tracks and exactly 2 were refused *)
C11_TenCreations ==
    /\ get_target_count_by_antenna(tracker, 0) = Min(steps, 8)
    /\ Rejections = steps - Min(steps, 8)
    /\ last.op = "add_target" => (last.ret # None <=> steps <= 8)
    /\ steps = 10 => /\ get_target_count_by_antenna(tracker, 0) = 8
                     /\ Rejections = 2

(* C11 witness: the tenth creation has just been refused *)
C11_Witness ==
    /\ steps = 10
    /\ last.op = "add_target"
    /\ last.ret = None
    /\ Cardinality(DOMAIN targets) = 8

(* C12: add_target on a channel that holds 8 tracks returns None, does not
   panic and leaves the track map, the estimator map and the next id as they
   were; add_target on a channel with room, before or after a refusal,
   returns an id *)
C12_RefusalChangesNothing ==
    [][last'.op = "add_target" =>
          IF get_target_count_by_antenna(tracker, last'.arg[1])
                 >= max_targets_per_antenna
          THEN /\ last'.ret = None
               /\ ~panicked'
               /\ targets' = targets
               /\ kalman_filters' = kalman_filters
               /\ next_target_id' = next_target_id
          ELSE /\ last'.ret = Some(next_target_id)
               /\ next_target_id \in DOMAIN targets'
               /\ ~panicked']_vars

(* C12 witness: a creation on the full channel 0 has just been refused,
   with tracks of channel 1 created while channel 0 was full *)
C12_Witness ==
    /\ last.op = "add_target"
    /\ last.ret = None
    /\ ~panicked
    /\ next_target_id > max_targets_per_antenna
    /\ get_target_count_by_antenna(tracker, 1) > 0
    /\ get_target_count_by_antenna(tracker, 0) = max_targets_per_antenna

(* the inversion of the innovation covariance fails in update_target(id, p)
   called now *)
InversionFails(id) ==
    /\ id \in DOMAIN targets
    /\ id \in DOMAIN kalman_filters
    /\ now > targets[id].last_update
    /\ try_inverse(innovation_covariance(
           predict(kalman_filters[id], now - targets[id].last_update))) = None

(* C13: a measurement update in which the inversion of the innovation
   covariance fails does not abort the process: the track is left in state
   Predicted with its confidence decayed as in a coast cycle, and every
   other track is as it was *)
C13_InversionFailureSkipped ==
    [][(last'.op = "update_target" /\ InversionFails(last'.arg[1])) =>
          /\ ~panicked'
          /\ targets'[last'.arg[1]].state = "Predicted"
          /\ targets'[last'.arg[1]].confidence
                 = (targets[last'.arg[1]].confidence * 9) \div 10
          /\ \A other \in DOMAIN targets \ {last'.arg[1]} :
                targets'[other] = targets[other]]_vars

(* C14: update_target on a live track when no time has passed since the
   track's last update returns false and leaves the track, all its fields,
   and its estimator as they were *)
C14_ZeroElapsedNoOp ==
    [][(/\ last'.op = "update_target"
        /\ last'.arg[1] \in DOMAIN targets
        /\ now - targets[last'.arg[1]].last_update <= 0) =>
          /\ last'.ret = FALSE
          /\ ~panicked'
          /\ targets' = targets
          /\ kalman_filters' = kalman_filters]_vars

(* C14 witness: update_target has just returned false for a live track that
   was last updated at this very tick and has coasted since *)
C14_Witness ==
    /\ last.op = "update_target"
    /\ last.ret = FALSE
    /\ last.arg[1] \in DOMAIN targets
    /\ targets[last.arg[1]].last_update = now
    /\ targets[last.arg[1]].state = "Predicted"
    /\ targets[last.arg[1]].prediction_count = 1

(* C15: update_target and get_fall_predictions called with an id that names
   no live track, never issued or removed, return false and None, do not
   panic and leave the tracker as it was *)
C15_UnknownIdNotFound ==
    [][(/\ last'.op \in {"update_target", "get_fall_predictions"}
        /\ last'.arg[1] \notin DOMAIN targets) =>
          /\ last'.ret = (IF last'.op = "update_target" THEN FALSE ELSE None)
          /\ ~panicked'
          /\ targets' = targets
          /\ kalman_filters' = kalman_filters
          /\ next_target_id' = next_target_id]_vars

(* C15 witness: a trajectory has just been refused for the id of a removed
   track while a younger track is live *)
C15_Witness ==
    /\ last.op = "get_fall_predictions"
    /\ last.ret = None
    /\ last.arg[1] \in issued
    /\ last.arg[1] \notin DOMAIN targets
    /\ targets # Empty

(* C16: a scan cycle coasts every live track that received no measurement
   in it before it prunes; so when a cycle that had no detection at all has
   ended, every live track is in state Predicted and has coasted at least
   once since its last measurement *)
C16_CoastBeforePrune ==
    (pc = "idle" /\ last.op = "remove_lost_targets" /\ signals_processed = 0) =>
        \A id \in DOMAIN targets : /\ targets[id].state = "Predicted"
                                   /\ targets[id].prediction_count >= 1

(* C17: the detections of a scan cycle are handled one at a time, each
   against the tracker as the earlier ones left it: a detection within the
   gate of a live track, one created earlier in the cycle included, is
   associated with such a track and creates none, and a detection within
   the gate of no track creates a track exactly when its channel, with the
   tracks created earlier in the cycle counted, holds fewer than 8 *)
C17_DetectionsInOrder ==
    [][last'.op = "scan_result" =>
          /\ signals_processed' = signals_processed + 1
          /\ IF InGate(last'.arg[2]) # {}
             THEN /\ last'.ret.found # None
                  /\ last'.ret.found \subseteq InGate(last'.arg[2])
                  /\ NoneCreated
             ELSE IF get_target_count_by_antenna(tracker, last'.arg[1])
                         < max_targets_per_antenna
             THEN OneCreated
             ELSE NoneCreated /\ NoneUpdated]_vars

(* C17 witness: the ninth detection of the first scan cycle has just been
   refused for want of room, the eight before it having created the eight
   tracks of the channel *)
C17_Witness ==
    /\ last.op = "scan_result"
    /\ last.ret.near = {}
    /\ last.ret.created = None
    /\ signals_processed = 9
    /\ steps = 11
    /\ get_target_count_by_antenna(tracker, 0) = max_targets_per_antenna

(* C18: after update_target has returned true, the track's fall risk is the
   score of its new kinematics and its state is Falling if that score is
   above 0.7 and Tracking otherwise, whatever its state was *)
C18_StateAfterUpdate ==
    (last.op = "update_target" /\ last.ret = TRUE) =>
        LET target == targets[last.arg[1]]
        IN /\ target.fall_probability = analyze_fall_risk(target)
           /\ target.state = IF target.fall_probability > FallingThreshold
                             THEN "Falling" ELSE "Tracking"

(* C18 witness: update_target has just returned true for a track that one
   coast cycle had left in state Predicted with confidence 0.9 *)
C18_Witness ==
    /\ last.op = "update_target"
    /\ last.ret = TRUE
    /\ targets[last.arg[1]].state = "Tracking"
    /\ targets[last.arg[1]].confidence
           = (((ProbScale * 9) \div 10) * 8) \div 10 + SmoothGain

(* C19: an update_target that returns true sets the track's confidence to
   min(1, 0.8 c + 0.2), c its confidence before, and its coast count to 0 *)
C19_ConfidenceSmoothing ==
    [][(last'.op = "update_target" /\ last'.ret = TRUE) =>
          /\ targets'[last'.arg[1]].confidence
                 = Min((targets[last'.arg[1]].confidence * 8) \div 10
                           + (2 * ProbScale) \div 10,
                       ProbScale)
          /\ targets'[last'.arg[1]].prediction_count = 0]_vars

(* C19 witness: update_target has just returned true for a track whose
   confidence two coast cycles had brought to 0.81 *)
C19_Witness ==
    /\ last.op = "update_target"
    /\ last.ret = TRUE
    /\ targets[last.arg[1]].prediction_count = 0
    /\ targets[last.arg[1]].confidence
           = (((((ProbScale * 9) \div 10) * 9) \div 10) * 8) \div 10
                 + (2 * ProbScale) \div 10

(* C20: predict_all_targets sets every live track to state Predicted, adds
   1 to its coast count and multiplies its confidence by 0.9; it adds and
   removes no track and changes no track's id, channel or last-update time *)
C20_CoastAll ==
    [][last'.op = "predict_all_targets" =>
          /\ DOMAIN targets' = DOMAIN targets
          /\ DOMAIN kalman_filters' = DOMAIN kalman_filters
          /\ next_target_id' = next_target_id
          /\ \A id \in DOMAIN targets :
                /\ targets'[id].state = "Predicted"
                /\ targets'[id].prediction_count = targets[id].prediction_count + 1
                /\ targets'[id].confidence = (targets[id].confidence * 9) \div 10
                /\ targets'[id].id = targets[id].id
                /\ targets'[id].antenna_id = targets[id].antenna_id
                /\ targets'[id].last_update = targets[id].last_update]_vars

(* C20 witness: a coast cycle has just acted on two tracks of different
   channels, one that had coasted before and one created since, in state
   Tracking until now *)
C20_Witness ==
    /\ last.op = "predict_all_targets"
    /\ \E a, b \in DOMAIN targets :
          /\ targets[a].antenna_id # targets[b].antenna_id
          /\ targets[a].prediction_count = 2
          /\ targets[b].prediction_count = 1
          /\ targets[b].last_update > 0

(* C21: a track that add_target has just created is in state Tracking, at
   the detection's position with zero velocity and acceleration, has coast
   count 0 and the channel passed, and its estimator starts at the same
   position with zero velocity and acceleration *)
C21_NewTrack ==
    (last.op = "add_target" /\ last.ret # None) =>
        \A id \in last.ret :
            /\ id \in DOMAIN targets /\ id \in DOMAIN kalman_filters
            /\ targets[id].id = id
            /\ targets[id].state = "Tracking"
            /\ targets[id].position = last.arg[2]
            /\ targets[id].velocity = <<0, 0>>
            /\ targets[id].acceleration = <<0, 0>>
            /\ targets[id].prediction_count = 0
            /\ targets[id].antenna_id = last.arg[1]
            /\ get_position(kalman_filters[id]) = last.arg[2]
            /\ get_velocity(kalman_filters[id]) = <<0, 0>>
            /\ get_acceleration(kalman_filters[id]) = <<0, 0>>

(* C21 witness: a track has just been created on channel 1 away from the
   origin, next to an older track that has coasted *)
C21_Witness ==
    /\ last.op = "add_target"
    /\ last.ret # None
    /\ last.arg = <<1, (<<140, 50>>)>>
    /\ \E other \in DOMAIN targets : targets[other].state = "Predicted"

(* 1 if the condition holds and 0 if not *)
Holds(condition) == IF condition THEN 1 ELSE 0

(* min(1, 0.4 [ay < -9.5] + 0.3 [vy < -2.0] + 0.2 [|a| > 15.0]
   + 0.1 [|v| > 4.0]) in units of 1/ProbScale, for a velocity and an
   acceleration in units of 1/PosScale *)
Score(v, a) ==
    Min((ProbScale \div 10)
          * (4 * Holds(a[2] * 10 < -95 * PosScale)
             + 3 * Holds(v[2] < -2 * PosScale)
             + 2 * Holds(a[1] * a[1] + a[2] * a[2] > (15 * PosScale) * (15 * PosScale))
             + Holds(v[1] * v[1] + v[2] * v[2] > (4 * PosScale) * (4 * PosScale))),
        ProbScale)

(* C22: what analyze_fall_risk returns for a track is Score of the track's
   velocity and acceleration, to within the rounding of the four weights,
   whatever the track's other fields are; the call changes nothing *)
C22_ScoreFormula ==
    [][last'.op = "analyze_track" =>
          /\ last'.ret - Score(last'.arg.velocity, last'.arg.acceleration) \in -2..2
          /\ targets' = targets
          /\ kalman_filters' = kalman_filters
          /\ next_target_id' = next_target_id]_vars

(* C22 witness: the score of a coasted track whose vertical velocity and
   vertical acceleration are exactly at their thresholds has come out 0 *)
C22_Witness ==
    /\ last.op = "analyze_track"
    /\ last.arg.velocity = <<0, -200>>
    /\ last.arg.acceleration = <<0, -950>>
    /\ last.arg.state = "Predicted"
    /\ last.ret = 0

(* the track of the fall scenario: 5 m/s downwards, 10 m/s^2 downwards *)
FallScenario ==
    /\ last.op = "analyze_track"
    /\ last.arg.velocity = <<0, -5 * PosScale>>
    /\ last.arg.acceleration = <<0, -10 * PosScale>>

(* C23: the track of the fall scenario scores above 0.7; with that score
   stored it is falling, and update_target's branch gives it the state
   Falling *)
C23_FallScenario ==
    FallScenario =>
        /\ last.ret * 10 > 7 * ProbScale
        /\ is_falling([last.arg EXCEPT !.fall_probability = last.ret])
        /\ state_for(last.ret) = "Falling"

(* C23 witness: the scenario has been scored, at 0.4 + 0.3 + 0.1 *)
C23_Witness ==
    /\ FallScenario
    /\ last.ret \in (8 * ProbScale) \div 10 - 2 .. (8 * ProbScale) \div 10 + 2

(* a one-step trajectory has been returned for a live track that is at
   (0, 0) with velocity (0, 0) *)
OneStepFromRest ==
    /\ last.op = "get_fall_predictions"
    /\ last.arg[2] = 1
    /\ last.arg[1] \in DOMAIN targets
    /\ targets[last.arg[1]].position = <<0, 0>>
    /\ targets[last.arg[1]].velocity = <<0, 0>>

(* C24 as stated: the one-step trajectory from rest at the origin is one
   position with x = 0 and y = -0.5 * 9.81 * 0.05^2 m, which is -490.5 in
   units of 1/(PosScale * TrajScale) m *)
C24_HalfStepAsStated ==
    OneStepFromRest =>
        \E p \in (-2..2) \X (-2000..0) :
            /\ last.ret = Some(<<p>>)
            /\ p[1] = 0
            /\ 2 * p[2] \in (-981 - 2) .. (-981 + 2)

(* C24: the one-step trajectory from rest at the origin is one position
   with x = 0 and y = -9.81 * 0.05^2 m, which is -981 in units of
   1/(PosScale * TrajScale) m: the velocity takes gravity * dt first and
   the position then advances by the new velocity * dt *)
C24_FullStep ==
    OneStepFromRest => last.ret = Some(<< <<0, -981>> >>)

(* C24 witness: the one-step trajectory of a track created and measured at
   the origin has been returned *)
C24_Witness ==
    /\ OneStepFromRest
    /\ last.ret # None
    /\ kalman_filters[last.arg[1]] # KalmanFilter_new(<<0, 0>>)

(* C25: get_fall_predictions leaves every track, every estimator and the
   next id as they were, whatever the id and the length; a call that
   follows a call with the same arguments returns what that call returned *)
C25_PreviewReadOnly ==
    [][last'.op = "get_fall_predictions" =>
          /\ targets' = targets
          /\ kalman_filters' = kalman_filters
          /\ next_target_id' = next_target_id
          /\ (last.op = "get_fall_predictions" /\ last'.arg = last.arg)
                => last'.ret = last.ret]_vars

(* C25 witness: a trajectory of three positions has been returned for a
   coasted track while another track is live *)
C25_Witness ==
    /\ last.op = "get_fall_predictions"
    /\ last.arg[2] = 3
    /\ \E trajectory \in last.ret : Len(trajectory) = 3
    /\ last.arg[1] \in DOMAIN targets
    /\ targets[last.arg[1]].state = "Predicted"
    /\ Cardinality(DOMAIN targets) >= 2

(* C26: KalmanFilter::update leaves the velocity and the acceleration
   entries of the state as predict left them, for every measurement *)
C26_UpdateCorrectsPositionOnly ==
    last.op = "update" =>
        /\ get_velocity(last.ret) = get_velocity(last.arg[1])
        /\ get_acceleration(last.ret) = get_acceleration(last.arg[1])

(* C26 witness: an update has moved the position of an estimator that has a
   velocity and an acceleration *)
C26_Witness ==
    /\ last.op = "update"
    /\ get_position(last.ret) # get_position(last.arg[1])
    /\ get_velocity(last.arg[1])[2] < 0
    /\ get_acceleration(last.arg[1])[2] < 0

(* the track id is as add_target made it, at position p *)
AsCreated(id, p) ==
    /\ id \in DOMAIN targets /\ id \in DOMAIN kalman_filters
    /\ targets[id].position = p
    /\ targets[id].prediction_count = 0
    /\ kalman_filters[id].covariance = KalmanFilter_new(p).covariance

(* C27: a measurement at p taken, after some time, by a track that is as it
   was created at p leaves the track and its estimator at p with velocity
   and acceleration zero *)
C27_SamePositionUpdate ==
    [][\A id \in UpdateIds, p \in TrackPositions :
          (/\ AsCreated(id, p)
           /\ last'.op = "update_target"
           /\ last'.arg = <<id, p>>
           /\ last'.ret = TRUE) =>
              /\ targets'[id].position = p
              /\ targets'[id].velocity = <<0, 0>>
              /\ targets'[id].acceleration = <<0, 0>>
              /\ get_position(kalman_filters'[id]) = p
              /\ get_velocity(kalman_filters'[id]) = <<0, 0>>
              /\ get_acceleration(kalman_filters'[id]) = <<0, 0>>]_vars

(* C27 witness: the track created at (1.4, 0.5) has taken its first
   measurement, at (1.4, 0.5) *)
C27_Witness ==
    /\ last.op = "update_target" /\ last.ret = TRUE
    /\ last.arg[2] = <<140, 50>>
    /\ \E dt \in 1..MaxSteps :
          LET predicted == predict(KalmanFilter_new(<<140, 50>>), dt)
          IN kalman_filters[last.arg[1]] =
                 update_with(predicted, <<140, 50>>, innovation_covariance(predicted))

(* C28: measurements reach the state Falling: a track whose measurements
   have followed a free fall for at least 0.6 s, by when the fall is faster
   than 4 m/s and accelerates at 9.81 m/s^2, has a score above 0.7, is in
   state Falling and is among the tracks get_falling_targets returns *)
C28_FallDetected ==
    (last.op = "update_target" /\ last.ret = TRUE /\ now >= 6) =>
        /\ targets[last.arg[1]].fall_probability > FallingThreshold
        /\ targets[last.arg[1]].state = "Falling"
        /\ last.arg[1] \in get_falling_targets(tracker)

(* C30: whatever has been called, the velocity and the acceleration of
   every estimator and of every live track are (0, 0), every live track's
   score is 0 and no live track is in state Falling *)
C30_KinematicsStayZero ==
    /\ \A id \in DOMAIN kalman_filters :
          /\ get_velocity(kalman_filters[id]) = <<0, 0>>
          /\ get_acceleration(kalman_filters[id]) = <<0, 0>>
    /\ \A id \in DOMAIN targets :
          /\ targets[id].velocity = <<0, 0>>
          /\ targets[id].acceleration = <<0, 0>>
          /\ targets[id].fall_probability = 0
          /\ targets[id].state # "Falling"
    /\ get_falling_targets(tracker) = {}

(* C30 witness: a track has taken a measurement away from where it was and
   has moved towards it, while another track is coasting *)
C30_Witness ==
    /\ last.op = "update_target" /\ last.ret = TRUE
    /\ targets[last.arg[1]].position \notin TrackPositions
    /\ targets[last.arg[1]].position # last.arg[2]
    /\ \E other \in DOMAIN targets : targets[other].state = "Predicted"

(* the 16-bit word whose low byte is byte k of slot i of the buffer, and
   whether the slot has a non-zero byte *)
Word(buffer, i, k) == buffer[8 * i + k + 1] + 256 * buffer[8 * i + k + 2]
NonZero(buffer, i) == \E k \in 1..8 : buffer[8 * i + k] # 0

(* the value of a word whose top bit is an inverted sign flag *)
InvertedSign(word) == IF word >= 32768 THEN word - 32768 ELSE -word

(* the slot from which target j of the result comes: the j-th non-zero one *)
SlotOf(buffer, j) ==
    CHOOSE i \in 0..2 :
        /\ NonZero(buffer, i)
        /\ Cardinality({h \in 0..(i - 1) : NonZero(buffer, h)}) = j - 1

(* C29: deserialize of a buffer of three slots or more returns one target
   for each non-zero slot of the first three, in the order of the slots;
   x, y and speed are the slot's first three words with the top bit as an
   inverted sign flag, the distance resolution is the fourth word as it is *)
C29_InvertedSignFlag ==
    (last.op = "deserialize" /\ Len(last.arg) >= 24) =>
        \E data \in last.ret :
            /\ Len(data.targets)
                   = Cardinality({i \in 0..2 : NonZero(last.arg, i)})
            /\ \A j \in 1..Len(data.targets) :
                  LET i == SlotOf(last.arg, j)
                  IN /\ data.targets[j].position.x
                            = InvertedSign(Word(last.arg, i, 0))
                     /\ data.targets[j].position.y
                            = InvertedSign(Word(last.arg, i, 2))
                     /\ data.targets[j].speed
                            = InvertedSign(Word(last.arg, i, 4))
                     /\ data.targets[j].distance_resolution
                            = Word(last.arg, i, 6)

(* C29 witness: a buffer with no target in its first slot, the manual's
   example in its second and words with every bit set in its third has
   been decoded into two targets, the first at x = -782, y = 1713 *)
C29_Witness ==
    /\ last.op = "deserialize"
    /\ last.arg = <<0, 0, 0, 0, 0, 0, 0, 0>>
                    \o <<14, 3, 177, 134, 16, 0, 64, 1>>
                    \o <<0, 128, 255, 255, 1, 128, 255, 255>>
    /\ \E data \in last.ret :
          /\ Len(data.targets) = 2
          /\ data.targets[1].position = [x |-> -782, y |-> 1713]
          /\ data.targets[2].position = [x |-> 0, y |-> 32767]

(* the track id has not coasted since it was created or last measured, and
   that was at most timeout ago *)
FreshWithin(id, timeout) ==
    /\ id \in DOMAIN targets
    /\ targets[id].prediction_count = 0
    /\ now - targets[id].last_update <= timeout

(* C31: remove_lost_targets(timeout) keeps every track that has not coasted
   since its creation or its last measurement and whose creation or
   measurement is at most timeout ago; the confidence of such a track is at
   least 0.2 *)
C31_FreshTrackKept ==
    [][\A id \in DOMAIN targets :
          (last'.op = "remove_lost_targets" /\ FreshWithin(id, last'.arg)) =>
              /\ targets[id].confidence * 10 >= 2 * ProbScale
              /\ id \in DOMAIN targets' /\ id \in DOMAIN kalman_filters'
              /\ id \notin DOMAIN last'.ret]_vars

(* C31 witness: a pruning with timeout 0 has kept a track that a
   measurement, taken at this very tick, had raised from a confidence below
   0.1 to one below 0.3 *)
C31_Witness ==
    /\ last.op = "remove_lost_targets" /\ last.arg = 0
    /\ \E id \in DOMAIN targets :
          /\ targets[id].prediction_count = 0
          /\ targets[id].last_update = now
          /\ targets[id].confidence * 10 < 3 * ProbScale

(* the track id meets none of the three pruning conditions at a timeout *)
MeetsNoCondition(id, timeout) ==
    /\ now - targets[id].last_update <= timeout
    /\ targets[id].confidence * 10 >= ProbScale
    /\ targets[id].prediction_count <= 10

(* C32: remove_lost_targets(timeout) leaves every track that meets no
   pruning condition live, with all its fields and its estimator as they
   were, and leaves the next id as it was *)
C32_PruneFrame ==
    [][last'.op = "remove_lost_targets" =>
          /\ next_target_id' = next_target_id
          /\ \A id \in DOMAIN targets :
                MeetsNoCondition(id, last'.arg) =>
                    /\ id \in DOMAIN targets' /\ id \in DOMAIN kalman_filters'
                    /\ targets'[id] = targets[id]
                    /\ kalman_filters'[id] = kalman_filters[id]]_vars

(* C32 witness: a pruning has removed a track and kept one that has coasted
   since its last measurement *)
C32_Witness ==
    /\ last.op = "remove_lost_targets"
    /\ DOMAIN last.ret # {}
    /\ \E id \in DOMAIN targets :
          /\ targets[id].prediction_count >= 1
          /\ targets[id].last_update > 0

(* the time the coast cycles have passed to predict for the track id since
   its creation or last measurement: every cycle passes the same
   prediction_time and adds 1 to the track's prediction_count *)
CoastedTime(id) ==
    targets[id].prediction_count * (CHOOSE d \in PredictionTimes : TRUE)

(* C33: no interval of time reaches a track's estimator twice: when
   update_target passes the time since the track's last update to predict,
   that time and the time the coast cycles passed to predict since that
   update are together no more than the time that has gone by since it,
   the coast cycles themselves having passed no more than that *)
C33_TimeAppliedOnce ==
    [][\A id \in DOMAIN targets :
          (/\ last'.op = "update_target" /\ last'.arg[1] = id /\ last'.ret = TRUE
           /\ CoastedTime(id) <= now - targets[id].last_update) =>
              CoastedTime(id) + (now - targets[id].last_update)
                  <= now - targets[id].last_update]_vars

(* C34: once the scans yield no more detections, the scan cycles that go on
   while time advances remove every live track: whatever track is live is
   later not live, and has no estimator *)
C34_EventuallyPruned ==
    \A id \in UpdateIds :
        (id \in DOMAIN targets)
            ~> (id \notin DOMAIN targets /\ id \notin DOMAIN kalman_filters)

(* C34 witness: the end of a scan cycle without detection has removed a
   track for its idle time and kept a track that was detected later *)
C34_Witness ==
    /\ last.op = "remove_lost_targets" /\ signals_processed = 0
    /\ DOMAIN last.ret # {}
    /\ targets # Empty
    /\ \A id \in DOMAIN targets : targets[id].prediction_count = 0

(* C35: after every step each entry of the track map is stored under the
   id of its track, and every track that is live before and after the step
   and was not created by it has the id and the channel it had *)
C35_StableIdentity ==
    [][/\ \A id \in DOMAIN targets' : targets'[id].id = id
       /\ \A id \in (DOMAIN targets \cap DOMAIN targets') \ Returned' :
             /\ targets'[id].id = targets[id].id
             /\ targets'[id].antenna_id = targets[id].antenna_id]_vars

(* C35 witness: a detection on one channel has updated a track of the
   other channel *)
C35_Witness ==
    /\ last.op = "scan_result" /\ last.ret.updated
    /\ \E id \in last.ret.found :
          /\ id \in DOMAIN targets
          /\ targets[id].antenna_id # last.arg[1]
          /\ targets[id].last_update = now

(* C36: while the loop of run_foreground_mode keeps turning, the branch
   that runs the periodic safety checks is taken again and again *)
C36_SafetyChecksRecur ==
    []<>(last.op = "select" /\ last.ret = "run_periodic_checks")

(* C37: the emergency stop is a latch. Once emergency_stop_triggered is true
   it stays true through every operation of the SafetyManager, and every
   run_full_diagnostics reports safe_to_operate exactly when it found no
   issue and no emergency stop has been triggered; so after a trigger every
   report is unsafe. *)
C37_EmergencyStopLatch ==
    [][/\ safety_manager.emergency_stop_triggered
            => safety_manager'.emergency_stop_triggered
       /\ last'.op = "trigger_emergency_stop"
            => safety_manager'.emergency_stop_triggered
       /\ last'.op = "run_full_diagnostics"
            => /\ last'.ret.safe_to_operate
                    <=> /\ last'.ret.issues = {}
                        /\ ~safety_manager.emergency_stop_triggered
               /\ safety_manager'.last_diagnostics = {last'.ret}]_vars

(* diagnostics that found no issue report unsafe after an emergency stop *)
C37_Witness ==
    /\ last.op = "run_full_diagnostics"
    /\ safety_manager.emergency_stop_triggered
    /\ last.ret.issues = {}
    /\ ~last.ret.safe_to_operate

(* C38: the retained history of scan results is bounded. After every
   run_scan_cycle, scan_results holds at most 1000 entries, whatever number
   of results the cycle added. *)
C38_HistoryBounded ==
    (pc = "idle" /\ last.op = "remove_lost_targets") => scan_results <= 1000

(* C39: RadarLLFrame::deserialize never panics. For every buffer it returns
   Some(frame) or None, and it returns None for a command/ACK frame whose
   length field is not the length of its opcode and payload, as it does for
   a target frame whose length field is not the length of its payload. *)
C39_DeserializeNeverPanics ==
    last.op = "RadarLLFrame::deserialize" =>
        /\ ~panicked
        /\ LET buffer == last.arg
               len == u16_from_le_bytes(buffer[5], buffer[6])
           IN /\ ( /\ Framed(buffer, <<253, 252, 251, 250>>, <<4, 3, 2, 1>>)
                   /\ Len(buffer) >= 12
                   /\ len # Len(buffer) - 10 ) => last.ret = None
              /\ ( /\ Framed(buffer, <<244, 243, 242, 241>>,
                                    <<248, 247, 246, 245>>)
                   /\ Len(buffer) >= 10
                   /\ len # Len(buffer) - 10 ) => last.ret = None

(* C40: quick_scan terminates for every range a scanner can be made with, the
   unvalidated start, end and step of the user included: a sweep under way
   comes to its return, and every turn of its loop scans a frequency the
   sweep has not scanned before, one step above the last. *)
C40_QuickScanTerminates ==
    /\ (scanner.at = "quick_scan") ~> (scanner.at = "idle")
    /\ [][(last'.op = "scan_frequency" /\ last.op = "scan_frequency")
            => \A before \in last.arg, after \in last'.arg : after > before]_vars

====
